---- MODULE Spec2Model ----
(***************************************************************************)
(* Six-line hexagram divination engine (suanming).                         *)
(*                                                                         *)
(* The model follows the Python sources under src/core:                    *)
(*   divination_engine.py  casting of the six lines                        *)
(*   najia_engine.py       najia assignment, strength classification       *)
(*   analysis_engine.py    five-dimension analysis and verdict             *)
(*   hexagram_analyzer.py  catalog lookup of the two hexagrams             *)
(*   ganzhi.py             stem-branch calendar                            *)
(*   storage.py            history file                                    *)
(*   llm_client.py         interpretation and follow-up conversation       *)
(* and the flows of src/main.py that call them.                            *)
(*                                                                         *)
(* Chinese string literals of the source are written in pinyin:            *)
(*   elements   mu huo tu jin shui        (wood fire earth metal water)    *)
(*   branches   zi chou yin mao chen si wu wei shen you xu hai             *)
(*   strength   Wang Xiang Xiu Qiu Si     (capitalised; "si" is a branch)  *)
(*   kinship    xiongdi zisun fumu qicai guangui, weizhi = unknown         *)
(*   categories shiye caiyun ganqing jiankang xueye chuxing qita           *)
(*   stems      jia yi bing ding wu4 ji3 geng xin ren gui                  *)
(*              (wu4 and ji3 carry their tone: "wu" is a branch)           *)
(*   spirits    qinglong zhuque gouchen tengshe baihu xuanwu               *)
(***************************************************************************)
EXTENDS Integers, Sequences, FiniteSets, TLC

VARIABLES
    pc,             \* position of the casting / analysis flow
    rand,           \* the last random.randint(0, 7) drawn by cast_single_yao
    yao_list,       \* cast_hexagram's local list of YaoResult
    result,         \* the HexagramResult returned by cast_hexagram
    knowledge,      \* the loaded catalog / najia rows of the two hexagrams
    analysis,       \* the AnalysisResult returned by HexagramAnalyzer.analyze
    question_type,  \* category handed to AnalysisEngine.analyze
    month_zhi,      \* month branch handed to paipan and analyze
    day_zhi,        \* day branch handed to paipan and analyze
    ri_gan,         \* day stem handed to paipan and analyze
    paipan_result,  \* the PaipanResult returned by NajiaEngine.paipan
    report,         \* the AnalysisReport built by AnalysisEngine.analyze
    error,          \* the exception run_divination caught, NoError for none
    dt,             \* the timestamp handed to GanzhiCalculator.calculate
    ganzhi_time,    \* the GanzhiTime it returned
    store,          \* the content of the history file of Storage
    history,        \* the list the last get_history returned
    now,            \* the clock read by datetime.now(), in ticks
    conversation_history,   \* LLMClient.conversation_history
    interpretation_text,    \* the text run_divination collected from generate
    record_id,      \* the id save_record returned, NoRecordId for None
    followup_count, \* followup_loop's count of follow-ups asked
    followup_response,      \* the text collected from generate_followup
    stored_record,  \* the stored record handed to reinterpret_record
    mock_result     \* the MockResult reinterpret_record rebuilt from it

vars == <<pc, rand, yao_list, result, knowledge, analysis, question_type,
          month_zhi, day_zhi, ri_gan, paipan_result, report, error,
          dt, ganzhi_time, store, history, now,
          conversation_history, interpretation_text, record_id,
          followup_count, followup_response, stored_record, mock_result>>

analysisVars == <<knowledge, analysis, question_type, month_zhi, day_zhi,
                  ri_gan, paipan_result, report, error>>

calendarVars == <<dt, ganzhi_time>>

storageVars == <<store, history, now>>

sessionVars == <<conversation_history, interpretation_text, record_id,
                 followup_count, followup_response, stored_record, mock_result>>

(***************************************************************************)
(* Helpers for Python idioms.                                              *)
(***************************************************************************)
\* dict.get(key, default)
Get(d, k, default) == IF k \in DOMAIN d THEN d[k] ELSE default

Max2(a, b) == IF a >= b THEN a ELSE b
Min2(a, b) == IF a <= b THEN a ELSE b

\* [f(x) for x in s if p(x)] keeps the order of s
RECURSIVE SelectPositions(_, _)
SelectPositions(s, keep) ==
    IF s = <<>> THEN <<>>
    ELSE IF keep[Head(s).position]
         THEN <<Head(s)>> \o SelectPositions(Tail(s), keep)
         ELSE SelectPositions(Tail(s), keep)

(***************************************************************************)
(* divination_engine.py                                                    *)
(***************************************************************************)
NumYao == 6         \* range(1, 7)
RandMax == 7        \* random.randint(0, 7)

YAO_MAPPING ==
    [v \in {6, 7, 8, 9} |->
        CASE v = 6 -> [name |-> "laoyin",   is_yang |-> FALSE, is_changing |-> TRUE]
          [] v = 7 -> [name |-> "shaoyang", is_yang |-> TRUE,  is_changing |-> FALSE]
          [] v = 8 -> [name |-> "shaoyin",  is_yang |-> FALSE, is_changing |-> FALSE]
          [] v = 9 -> [name |-> "laoyang",  is_yang |-> TRUE,  is_changing |-> TRUE]]

RandomToYaoSwapped(r) ==
    IF r = 0 THEN 6
    ELSE IF r <= 3 THEN 8
    ELSE IF r <= 6 THEN 7
    ELSE 9

RandomToYao(r) ==
    IF r = 0 THEN 6
    ELSE IF r <= 3 THEN 7
    ELSE IF r <= 6 THEN 8
    ELSE 9

\* the YaoResult cast_single_yao builds from one draw (symbol is display only)
MakeYaoResult(position, r) ==
    LET value == RandomToYao(r)
        mapping == YAO_MAPPING[value]
    IN [position    |-> position,
        value       |-> value,
        yao_type    |-> mapping.name,
        is_yang     |-> mapping.is_yang,
        is_changing |-> mapping.is_changing]

BenGuaBinary(yl) ==
    [i \in 1..Len(yl) |-> IF yl[i].is_yang THEN "1" ELSE "0"]

\* a plausible slip: the changing yao is copied instead of flipped when yin
BianGuaBinaryOnlyYang(yl) ==
    [i \in 1..Len(yl) |->
        IF yl[i].is_changing
        THEN "0"
        ELSE (IF yl[i].is_yang THEN "1" ELSE "0")]

BianGuaBinary(yl) ==
    [i \in 1..Len(yl) |->
        IF yl[i].is_changing
        THEN (IF yl[i].is_yang THEN "0" ELSE "1")
        ELSE (IF yl[i].is_yang THEN "1" ELSE "0")]

ChangingLines(yl) ==
    LET sel == SelectPositions(yl, [p \in 1..Len(yl) |-> yl[p].is_changing])
    IN [i \in 1..Len(sel) |-> sel[i].position]

NoResult ==
    [yao_list |-> <<>>, ben_gua_binary |-> <<>>, bian_gua_binary |-> <<>>,
     changing_lines |-> <<>>]

\* a HexagramInfo as far as paipan reads it.  The gong name stands for its
\* element in the gong table, and each trigram name for the list of six
\* branches the najia table gives it.
NoInfo ==
    [gong_wuxing |-> "", shi_yao |-> 0, ying_yao |-> 0,
     lower_dizhi |-> <<>>, upper_dizhi |-> <<>>]

NoKnowledge == [ben |-> NoInfo, bian |-> NoInfo]

NoAnalysis ==
    [ben_gua |-> NoInfo, bian_gua |-> <<>>, changing_lines |-> <<>>,
     has_change |-> FALSE]

NoPaipan ==
    [gong_wuxing |-> "", shi_yao |-> 0, ying_yao |-> 0,
     ben_gua_yaos |-> <<>>, bian_gua_yaos |-> <<>>,
     month_jian |-> "", day_chen |-> ""]

NoReport ==
    [question_type |-> "", yaos |-> <<>>,
     yong_shen_pos |-> 0, yong_shen_status |-> <<>>, yong_shen_score |-> 0,
     shi_pos |-> 0, ying_pos |-> 0, shi_ying_relation |-> "",
     dong_yao_analysis |-> <<>>, ji_xiong |-> "", conclusion |-> <<>>]

\* no exception; kind names the exception, pattern the 6-bit pattern its
\* message carries
NoError == [kind |-> "", pattern |-> <<>>]

\* no timestamp, no GanzhiTime
NoDatetime == [year |-> 0, month |-> 0, day |-> 0, hour |-> 0]

NoGanzhiTime ==
    [year_gan |-> "", year_zhi |-> "", month_gan |-> "", month_zhi |-> "",
     day_gan |-> "", day_zhi |-> "", hour_gan |-> "", hour_zhi |-> ""]

\* the history file _ensure_file_exists writes when there is none
EmptyStore ==
    [records |-> <<>>,
     statistics |-> [total_count |-> 0, by_type |-> <<>>]]

\* no list returned by get_history yet
NoHistory == [limit |-> 0, question_type |-> "", records |-> <<>>]

\* None in the place of a record id (the ids are the ticks 1, 2, ...)
NoRecordId == 0

\* no record handed to reinterpret_record, no MockResult built
NoRecord == [id |-> NoRecordId]
NoMockResult == [yao_list |-> <<>>, changing_lines |-> <<>>]

\* no run_divination and no reinterpret_record under way: there is no
\* LLMClient and none of their locals
NoSession ==
    /\ conversation_history = <<>>
    /\ interpretation_text = <<>>
    /\ record_id = NoRecordId
    /\ followup_count = 0
    /\ followup_response = <<>>
    /\ stored_record = NoRecord
    /\ mock_result = NoMockResult

(***************************************************************************)
(* Five elements: generate / overcome tables of analysis_engine.py.        *)
(***************************************************************************)
WUXING == {"mu", "huo", "tu", "jin", "shui"}

DIZHI == <<"zi", "chou", "yin", "mao", "chen", "si",
           "wu", "wei", "shen", "you", "xu", "hai">>

WUXING_SHENG ==
    [mu |-> "huo", huo |-> "tu", tu |-> "jin", jin |-> "shui", shui |-> "mu"]

WUXING_KE ==
    [mu |-> "tu", huo |-> "jin", tu |-> "shui", jin |-> "mu", shui |-> "huo"]

\* AnalysisEngine.DIZHI_WUXING
DIZHI_WUXING ==
    [zi |-> "shui", chou |-> "tu", yin |-> "mu", mao |-> "mu",
     chen |-> "tu", si |-> "huo", wu |-> "huo", wei |-> "tu",
     shen |-> "jin", you |-> "jin", xu |-> "tu", hai |-> "shui"]

\* a plausible slip: the four earth months given the element of their
\* season
MONTH_WUXING_Seasonal ==
    [yin |-> "mu", mao |-> "mu", chen |-> "mu",
     si |-> "huo", wu |-> "huo", wei |-> "huo",
     shen |-> "jin", you |-> "jin", xu |-> "jin",
     hai |-> "shui", zi |-> "shui", chou |-> "shui"]

\* AnalysisEngine.MONTH_WUXING
MONTH_WUXING ==
    [yin |-> "mu", mao |-> "mu", chen |-> "tu",
     si |-> "huo", wu |-> "huo", wei |-> "tu",
     shen |-> "jin", you |-> "jin", xu |-> "tu",
     hai |-> "shui", zi |-> "shui", chou |-> "tu"]

(***************************************************************************)
(* najia_engine.py                                                         *)
(***************************************************************************)
\* a plausible slip: the Qiu and Si columns of the wood row exchanged
WANGSHUAI_TABLE_Swapped ==
    [mu   |-> [mu |-> "Wang", huo |-> "Xiang", shui |-> "Xiu", jin |-> "Si", tu |-> "Qiu"],
     huo  |-> [huo |-> "Wang", tu |-> "Xiang", mu |-> "Xiu", shui |-> "Qiu", jin |-> "Si"],
     tu   |-> [tu |-> "Wang", jin |-> "Xiang", huo |-> "Xiu", mu |-> "Qiu", shui |-> "Si"],
     jin  |-> [jin |-> "Wang", shui |-> "Xiang", tu |-> "Xiu", huo |-> "Qiu", mu |-> "Si"],
     shui |-> [shui |-> "Wang", mu |-> "Xiang", jin |-> "Xiu", tu |-> "Qiu", huo |-> "Si"]]

\* a plausible slip: one entry of the water row left out
WANGSHUAI_TABLE_Missing ==
    [mu   |-> [mu |-> "Wang", huo |-> "Xiang", shui |-> "Xiu", jin |-> "Qiu", tu |-> "Si"],
     huo  |-> [huo |-> "Wang", tu |-> "Xiang", mu |-> "Xiu", shui |-> "Qiu", jin |-> "Si"],
     tu   |-> [tu |-> "Wang", jin |-> "Xiang", huo |-> "Xiu", mu |-> "Qiu", shui |-> "Si"],
     jin  |-> [jin |-> "Wang", shui |-> "Xiang", tu |-> "Xiu", huo |-> "Qiu", mu |-> "Si"],
     shui |-> [shui |-> "Wang", jin |-> "Xiu", tu |-> "Qiu", huo |-> "Si"]]

\* {month element: {line element: strength}}
WANGSHUAI_TABLE ==
    [mu   |-> [mu |-> "Wang", huo |-> "Xiang", shui |-> "Xiu", jin |-> "Qiu", tu |-> "Si"],
     huo  |-> [huo |-> "Wang", tu |-> "Xiang", mu |-> "Xiu", shui |-> "Qiu", jin |-> "Si"],
     tu   |-> [tu |-> "Wang", jin |-> "Xiang", huo |-> "Xiu", mu |-> "Qiu", shui |-> "Si"],
     jin  |-> [jin |-> "Wang", shui |-> "Xiang", tu |-> "Xiu", huo |-> "Qiu", mu |-> "Si"],
     shui |-> [shui |-> "Wang", mu |-> "Xiang", jin |-> "Xiu", tu |-> "Qiu", huo |-> "Si"]]

\* WangShuaiCalculator.MONTH_WUXING
WS_MONTH_WUXING ==
    [yin |-> "mu", mao |-> "mu", chen |-> "tu",
     si |-> "huo", wu |-> "huo", wei |-> "tu",
     shen |-> "jin", you |-> "jin", xu |-> "tu",
     hai |-> "shui", zi |-> "shui", chou |-> "tu"]

\* WangShuaiCalculator.DIZHI_WUXING; NajiaEngine.dizhi_wuxing is loaded from
\* knowledge/najia.json and is taken to be this same table
WS_DIZHI_WUXING ==
    [zi |-> "shui", chou |-> "tu", yin |-> "mu", mao |-> "mu",
     chen |-> "tu", si |-> "huo", wu |-> "huo", wei |-> "tu",
     shen |-> "jin", you |-> "jin", xu |-> "tu", hai |-> "shui"]

\* WangShuaiCalculator.calc_wangshuai, with the defaults of its two .get calls
CalcWangshuai(yao_wuxing, mz) ==
    LET month_wuxing == Get(WS_MONTH_WUXING, mz, "tu")
        row == Get(WANGSHUAI_TABLE, month_wuxing, <<>>)
    IN Get(row, yao_wuxing, "Xiu")

\* a plausible slip: the arguments of the second comparison exchanged, so
\* that "I generate" and "generates me" trade places
CalcLiuqinExchanged(yao_wuxing, gong_wuxing) ==
    LET wuxing_sheng == [mu |-> "huo", huo |-> "tu", tu |-> "jin",
                         jin |-> "shui", shui |-> "mu"]
        wuxing_ke == [mu |-> "tu", huo |-> "jin", tu |-> "shui",
                      jin |-> "mu", shui |-> "huo"]
    IN IF yao_wuxing = gong_wuxing THEN "xiongdi"
       ELSE IF Get(wuxing_sheng, yao_wuxing, "None") = gong_wuxing THEN "zisun"
       ELSE IF Get(wuxing_sheng, gong_wuxing, "None") = yao_wuxing THEN "fumu"
       ELSE IF Get(wuxing_ke, gong_wuxing, "None") = yao_wuxing THEN "qicai"
       ELSE IF Get(wuxing_ke, yao_wuxing, "None") = gong_wuxing THEN "guangui"
       ELSE "weizhi"

\* NajiaEngine.calc_liuqin, with its own local generate / overcome tables
CalcLiuqin(yao_wuxing, gong_wuxing) ==
    LET wuxing_sheng == [mu |-> "huo", huo |-> "tu", tu |-> "jin",
                         jin |-> "shui", shui |-> "mu"]
        wuxing_ke == [mu |-> "tu", huo |-> "jin", tu |-> "shui",
                      jin |-> "mu", shui |-> "huo"]
    IN IF yao_wuxing = gong_wuxing THEN "xiongdi"
       ELSE IF Get(wuxing_sheng, gong_wuxing, "None") = yao_wuxing THEN "zisun"
       ELSE IF Get(wuxing_sheng, yao_wuxing, "None") = gong_wuxing THEN "fumu"
       ELSE IF Get(wuxing_ke, gong_wuxing, "None") = yao_wuxing THEN "qicai"
       ELSE IF Get(wuxing_ke, yao_wuxing, "None") = gong_wuxing THEN "guangui"
       ELSE "weizhi"

\* the six spirits in their cyclic order
LIUSHEN == <<"qinglong", "zhuque", "gouchen", "tengshe", "baihu", "xuanwu">>

\* najia.json, the six-spirit configuration: one list of six spirits per
\* group of day stems, each list running through the cycle from the spirit
\* of its group
LIUSHEN_CONFIG ==
    [g \in {"jiayi", "bingding", "wu4", "ji3", "gengxin", "rengui"} |->
        LET first == CASE g = "jiayi"    -> 0
                       [] g = "bingding" -> 1
                       [] g = "wu4"      -> 2
                       [] g = "ji3"      -> 3
                       [] g = "gengxin"  -> 4
                       [] g = "rengui"   -> 5
        IN [i \in 1..6 |-> LIUSHEN[((first + i - 1) % 6) + 1]]]

\* NajiaEngine.get_liushen; any other day stem gets the jia / yi list
GetLiushen(rg) ==
    IF rg \in {"jia", "yi"} THEN LIUSHEN_CONFIG["jiayi"]
    ELSE IF rg \in {"bing", "ding"} THEN LIUSHEN_CONFIG["bingding"]
    ELSE IF rg = "wu4" THEN LIUSHEN_CONFIG["wu4"]
    ELSE IF rg = "ji3" THEN LIUSHEN_CONFIG["ji3"]
    ELSE IF rg \in {"geng", "xin"} THEN LIUSHEN_CONFIG["gengxin"]
    ELSE IF rg \in {"ren", "gui"} THEN LIUSHEN_CONFIG["rengui"]
    ELSE LIUSHEN_CONFIG["jiayi"]

\* changing_positions of paipan: the positions whose value is 6 or 9
ChangingPositions(yao_values) ==
    {i \in 1..Len(yao_values) : yao_values[i] \in {6, 9}}

\* the YaoNajia paipan builds for position pos of the original hexagram.
\* dizhi is the branch get_trigram_najia hands out for that position.
\* liushen_list is the list get_liushen returned.  tiangan is copied from a
\* loaded table, read by nothing, and left out.
BenYao(pos, yao_values, dizhi, gong_wuxing, shi_yao, ying_yao, mz, liushen_list) ==
    LET wuxing == WS_DIZHI_WUXING[dizhi]
    IN [position    |-> pos,
        yao_value   |-> yao_values[pos],
        is_yang     |-> yao_values[pos] \in {7, 9},
        is_changing |-> pos \in ChangingPositions(yao_values),
        dizhi       |-> dizhi,
        wuxing      |-> wuxing,
        liuqin      |-> CalcLiuqin(wuxing, gong_wuxing),
        liushen     |-> liushen_list[pos],
        shi_yao     |-> (pos = shi_yao),
        ying_yao    |-> (pos = ying_yao),
        wang_shuai  |-> IF mz # "" THEN CalcWangshuai(wuxing, mz) ELSE ""]

\* a plausible slip: the polarity of a mutating line is copied, not flipped
BianYaoNoFlip(pos, yao_values, dizhi, gong_wuxing, shi_yao, ying_yao, mz, liushen_list) ==
    LET original_val == yao_values[pos]
        is_yang == original_val \in {7, 9}
        wuxing == WS_DIZHI_WUXING[dizhi]
    IN [position    |-> pos,
        yao_value   |-> IF is_yang THEN 7 ELSE 8,
        is_yang     |-> is_yang,
        is_changing |-> FALSE,
        dizhi       |-> dizhi,
        wuxing      |-> wuxing,
        liuqin      |-> CalcLiuqin(wuxing, gong_wuxing),
        liushen     |-> liushen_list[pos],
        shi_yao     |-> (pos = shi_yao),
        ying_yao    |-> (pos = ying_yao),
        wang_shuai  |-> IF mz # "" THEN CalcWangshuai(wuxing, mz) ELSE ""]

\* the YaoNajia paipan builds for position pos of the resulting hexagram
BianYao(pos, yao_values, dizhi, gong_wuxing, shi_yao, ying_yao, mz, liushen_list) ==
    LET original_val == yao_values[pos]
        is_yang == IF pos \in ChangingPositions(yao_values)
                   THEN (IF original_val = 9 THEN FALSE ELSE original_val \in {6})
                   ELSE original_val \in {7, 9}
        wuxing == WS_DIZHI_WUXING[dizhi]
    IN [position    |-> pos,
        yao_value   |-> IF is_yang THEN 7 ELSE 8,
        is_yang     |-> is_yang,
        is_changing |-> FALSE,
        dizhi       |-> dizhi,
        wuxing      |-> wuxing,
        liuqin      |-> CalcLiuqin(wuxing, gong_wuxing),
        liushen     |-> liushen_list[pos],
        shi_yao     |-> (pos = shi_yao),
        ying_yao    |-> (pos = ying_yao),
        wang_shuai  |-> IF mz # "" THEN CalcWangshuai(wuxing, mz) ELSE ""]

\* self.gong_wuxing.get(gong, default): the house table is loaded from
\* najia.json; a house of the table is written as its element, any other
\* name is no key of the table
GongWuxing(gong) == IF gong \in WUXING THEN gong ELSE "jin"

\* NajiaEngine.paipan.  ben_dizhi / bian_dizhi are the six branches the
\* trigram table yields for the original / resulting hexagram; bian_dizhi is
\* <<>> when no resulting hexagram is passed (bian_gua_name is None).
Paipan(yao_values, ben_dizhi, bian_dizhi, gong, shi_yao, ying_yao, rg, mz, dz) ==
    LET gong_wuxing == GongWuxing(gong) IN
    [gong_wuxing   |-> gong_wuxing,
     shi_yao       |-> shi_yao,
     ying_yao      |-> ying_yao,
     ben_gua_yaos  |-> [i \in 1..NumYao |->
                          BenYao(i, yao_values, ben_dizhi[i], gong_wuxing,
                                 shi_yao, ying_yao, mz, GetLiushen(rg))],
     bian_gua_yaos |-> IF bian_dizhi = <<>> THEN <<>>
                       ELSE [i \in 1..NumYao |->
                               BianYao(i, yao_values, bian_dizhi[i], gong_wuxing,
                                       shi_yao, ying_yao, mz, GetLiushen(rg))],
     month_jian    |-> mz,
     day_chen      |-> dz]

(***************************************************************************)
(* analysis_engine.py                                                      *)
(***************************************************************************)
\* a plausible slip: a row copied with its target role left in the adverse
\* column
YONG_SHEN_MAP_Repeated ==
    [shiye    |-> [yong |-> "guangui", yuan |-> "qicai",   ji |-> "zisun",   chou |-> "xiongdi"],
     caiyun   |-> [yong |-> "qicai",   yuan |-> "zisun",   ji |-> "qicai",   chou |-> "fumu"],
     ganqing  |-> [yong |-> "qicai",   yuan |-> "zisun",   ji |-> "xiongdi", chou |-> "fumu"],
     jiankang |-> [yong |-> "zisun",   yuan |-> "xiongdi", ji |-> "guangui", chou |-> "qicai"],
     xueye    |-> [yong |-> "fumu",    yuan |-> "guangui", ji |-> "qicai",   chou |-> "zisun"],
     chuxing  |-> [yong |-> "shiyao",  yuan |-> "fumu",    ji |-> "guangui", chou |-> "xiongdi"],
     qita     |-> [yong |-> "shiyao",  yuan |-> "",        ji |-> "guangui", chou |-> ""]]

\* AnalysisEngine.YONG_SHEN_MAP
YONG_SHEN_MAP ==
    [shiye    |-> [yong |-> "guangui", yuan |-> "qicai",   ji |-> "zisun",   chou |-> "xiongdi"],
     caiyun   |-> [yong |-> "qicai",   yuan |-> "zisun",   ji |-> "xiongdi", chou |-> "fumu"],
     ganqing  |-> [yong |-> "qicai",   yuan |-> "zisun",   ji |-> "xiongdi", chou |-> "fumu"],
     jiankang |-> [yong |-> "zisun",   yuan |-> "xiongdi", ji |-> "guangui", chou |-> "qicai"],
     xueye    |-> [yong |-> "fumu",    yuan |-> "guangui", ji |-> "qicai",   chou |-> "zisun"],
     chuxing  |-> [yong |-> "shiyao",  yuan |-> "fumu",    ji |-> "guangui", chou |-> "xiongdi"],
     qita     |-> [yong |-> "shiyao",  yuan |-> "",        ji |-> "guangui", chou |-> ""]]

WANG_SHUAI_SCORE ==
    [Wang |-> 100, Xiang |-> 80, Xiu |-> 50, Qiu |-> 30, Si |-> 10]

\* a plausible slip: the two .get calls without their default, so that an
\* unknown branch has no element and sets no flag
CalcRiYueShengkeNoDefault(yao_wuxing, mz, dz) ==
    LET month_wuxing == Get(MONTH_WUXING, mz, "None")
        day_wuxing == Get(DIZHI_WUXING, dz, "None")
        yue_sheng == Get(WUXING_SHENG, month_wuxing, "None") = yao_wuxing
        ri_sheng == Get(WUXING_SHENG, day_wuxing, "None") = yao_wuxing
    IN [yue_sheng |-> yue_sheng,
        yue_ke    |-> (~yue_sheng) /\ Get(WUXING_KE, month_wuxing, "None") = yao_wuxing,
        ri_sheng  |-> ri_sheng,
        ri_ke     |-> (~ri_sheng) /\ Get(WUXING_KE, day_wuxing, "None") = yao_wuxing]

\* _calc_ri_yue_shengke: the four day / month flags of one line
CalcRiYueShengke(yao_wuxing, mz, dz) ==
    LET month_wuxing == Get(MONTH_WUXING, mz, "tu")
        day_wuxing == Get(DIZHI_WUXING, dz, "tu")
        yue_sheng == Get(WUXING_SHENG, month_wuxing, "None") = yao_wuxing
        ri_sheng == Get(WUXING_SHENG, day_wuxing, "None") = yao_wuxing
    IN [yue_sheng |-> yue_sheng,
        yue_ke    |-> (~yue_sheng) /\ Get(WUXING_KE, month_wuxing, "None") = yao_wuxing,
        ri_sheng  |-> ri_sheng,
        ri_ke     |-> (~ri_sheng) /\ Get(WUXING_KE, day_wuxing, "None") = yao_wuxing]

\* a plausible slip: the amounts of returning generation and of returning
\* overcome exchanged
CalcYaoScoreExchanged(yao) ==
    LET s0 == Get(WANG_SHUAI_SCORE, yao.wang_shuai, 50)
        s1 == IF yao.yue_sheng THEN s0 + 20 ELSE s0
        s2 == IF yao.ri_sheng THEN s1 + 15 ELSE s1
        s3 == IF yao.yue_ke THEN s2 - 25 ELSE s2
        s4 == IF yao.ri_ke THEN s3 - 15 ELSE s3
        s5 == IF yao.is_dong
              THEN (IF yao.hui_tou_sheng THEN s4 + 40
                    ELSE IF yao.hui_tou_ke THEN s4 - 30 ELSE s4)
              ELSE s4
    IN Max2(0, Min2(150, s5))

\* a plausible slip: the upper clamp applied, the lower one forgotten
CalcYaoScoreNoFloor(yao) ==
    LET s0 == Get(WANG_SHUAI_SCORE, yao.wang_shuai, 50)
        s1 == IF yao.yue_sheng THEN s0 + 20 ELSE s0
        s2 == IF yao.ri_sheng THEN s1 + 15 ELSE s1
        s3 == IF yao.yue_ke THEN s2 - 25 ELSE s2
        s4 == IF yao.ri_ke THEN s3 - 15 ELSE s3
        s5 == IF yao.is_dong
              THEN (IF yao.hui_tou_sheng THEN s4 + 30
                    ELSE IF yao.hui_tou_ke THEN s4 - 40 ELSE s4)
              ELSE s4
    IN Min2(150, s5)

\* _calc_yao_score
CalcYaoScore(yao) ==
    LET s0 == Get(WANG_SHUAI_SCORE, yao.wang_shuai, 50)
        s1 == IF yao.yue_sheng THEN s0 + 20 ELSE s0
        s2 == IF yao.ri_sheng THEN s1 + 15 ELSE s1
        s3 == IF yao.yue_ke THEN s2 - 25 ELSE s2
        s4 == IF yao.ri_ke THEN s3 - 15 ELSE s3
        s5 == IF yao.is_dong
              THEN (IF yao.hui_tou_sheng THEN s4 + 30
                    ELSE IF yao.hui_tou_ke THEN s4 - 40 ELSE s4)
              ELSE s4
    IN Max2(0, Min2(150, s5))

\* the body of the loop of analyze (step 1): the YaoAnalysis of one line
BuildYaoAnalysis(yao, config, pr, mz, dz) ==
    LET flags == CalcRiYueShengke(yao.wuxing, mz, dz)
        has_bian == yao.is_changing /\ pr.bian_gua_yaos # <<>>
        bian_yao == pr.bian_gua_yaos[yao.position]
        hts == has_bian /\ Get(WUXING_SHENG, bian_yao.wuxing, "None") = yao.wuxing
        htk == has_bian /\ ~hts /\ Get(WUXING_KE, bian_yao.wuxing, "None") = yao.wuxing
        base ==
            [position      |-> yao.position,
             liuqin        |-> yao.liuqin,
             liushen       |-> yao.liushen,
             dizhi         |-> yao.dizhi,
             wuxing        |-> yao.wuxing,
             wang_shuai    |-> yao.wang_shuai,
             is_dong       |-> yao.is_changing,
             is_shi        |-> yao.shi_yao,
             is_ying       |-> yao.ying_yao,
             is_yong_shen  |-> IF config.yong = "shiyao" THEN yao.shi_yao
                               ELSE yao.liuqin = config.yong,
             is_yuan_shen  |-> yao.liuqin = config.yuan,
             is_ji_shen    |-> yao.liuqin = config.ji,
             is_chou_shen  |-> yao.liuqin = config.chou,
             bian_dizhi    |-> IF has_bian THEN bian_yao.dizhi ELSE "",
             bian_wuxing   |-> IF has_bian THEN bian_yao.wuxing ELSE "",
             hui_tou_sheng |-> hts,
             hui_tou_ke    |-> htk,
             ri_sheng      |-> flags.ri_sheng,
             ri_ke         |-> flags.ri_ke,
             yue_sheng     |-> flags.yue_sheng,
             yue_ke        |-> flags.yue_ke,
             score         |-> 0]
    IN [base EXCEPT !.score = CalcYaoScore(base)]

\* [y for y in yaos if pred(y)] in list order; keep is indexed by position
FilterYaos(yaos, keep) == SelectPositions(yaos, keep)

\* max(seq, key=lambda x: x.score): the first element with the largest score
RECURSIVE MaxByScoreFrom(_, _, _)
MaxByScoreFrom(seq, i, best) ==
    IF i > Len(seq) THEN best
    ELSE MaxByScoreFrom(seq, i + 1,
                        IF seq[i].score > best.score THEN seq[i] ELSE best)

\* a plausible slip: >= keeps the last of several equal maxima
RECURSIVE MaxByScoreLastFrom(_, _, _)
MaxByScoreLastFrom(seq, i, best) ==
    IF i > Len(seq) THEN best
    ELSE MaxByScoreLastFrom(seq, i + 1,
                            IF seq[i].score >= best.score THEN seq[i] ELSE best)

MaxByScoreLast(seq) == MaxByScoreLastFrom(seq, 2, seq[1])

MaxByScore(seq) == MaxByScoreFrom(seq, 2, seq[1])

\* the clauses of status_parts for the selected target spirit
StatusParts(yong) ==
    (IF yong.wang_shuai \in {"Wang", "Xiang"} THEN <<"wangxiang_youli">>
     ELSE IF yong.wang_shuai \in {"Xiu", "Qiu", "Si"} THEN <<"xiuqiu_wuli">>
     ELSE <<>>)
    \o (IF yong.ri_sheng THEN <<"de_ri_shengfu">> ELSE <<>>)
    \o (IF yong.ri_ke THEN <<"shou_ri_kezhi">> ELSE <<>>)
    \o (IF yong.yue_sheng THEN <<"de_yue_shengfu">> ELSE <<>>)
    \o (IF yong.yue_ke THEN <<"shou_yue_kezhi">> ELSE <<>>)
    \o (IF yong.is_dong
        THEN (IF yong.hui_tou_sheng THEN <<"donghua_huitousheng">>
              ELSE IF yong.hui_tou_ke THEN <<"donghua_huitouke">> ELSE <<>>)
        ELSE <<>>)

\* a plausible slip: without a line of the target role the subject line is
\* taken as target spirit
AnalyzeYongShenDefaultShi(rep) ==
    LET n == Len(rep.yaos)
        flagged == FilterYaos(rep.yaos, [p \in 1..n |-> rep.yaos[p].is_yong_shen])
        yong_shen_yaos ==
            IF flagged # <<>> THEN flagged
            ELSE FilterYaos(rep.yaos, [p \in 1..n |-> rep.yaos[p].is_shi])
    IN IF yong_shen_yaos # <<>>
       THEN LET yong == MaxByScore(yong_shen_yaos)
                parts == StatusParts(yong)
            IN [rep EXCEPT !.yong_shen_pos = yong.position,
                           !.yong_shen_score = yong.score,
                           !.yong_shen_status =
                               IF parts # <<>> THEN parts ELSE <<"zhuangtai_zhongping">>]
       ELSE rep

\* _analyze_yong_shen.  yong_shen_status is kept as the list of clauses the
\* code joins into one sentence.
AnalyzeYongShen(rep) ==
    LET yong_shen_yaos ==
            FilterYaos(rep.yaos, [p \in 1..Len(rep.yaos) |-> rep.yaos[p].is_yong_shen])
    IN IF yong_shen_yaos # <<>>
       THEN LET yong == MaxByScore(yong_shen_yaos)
                parts == StatusParts(yong)
            IN [rep EXCEPT !.yong_shen_pos = yong.position,
                           !.yong_shen_score = yong.score,
                           !.yong_shen_status =
                               IF parts # <<>> THEN parts ELSE <<"zhuangtai_zhongping">>]
       ELSE rep

\* the last line of yaos for which keep holds (the loop of _analyze_shi_ying
\* overwrites its local on every match); <<>> stands for None
LastYao(yaos, keep) ==
    LET sel == FilterYaos(yaos, keep)
    IN IF sel = <<>> THEN <<>> ELSE <<sel[Len(sel)]>>

\* a plausible slip: the overcome branches test the counterpart first
ShiYingRelationReversed(shi_wx, ying_wx) ==
    IF Get(WUXING_SHENG, shi_wx, "None") = ying_wx THEN "shi_sheng_ying"
    ELSE IF Get(WUXING_SHENG, ying_wx, "None") = shi_wx THEN "ying_sheng_shi"
    ELSE IF Get(WUXING_KE, ying_wx, "None") = shi_wx THEN "shi_ke_ying"
    ELSE IF Get(WUXING_KE, shi_wx, "None") = ying_wx THEN "ying_ke_shi"
    ELSE IF shi_wx = ying_wx THEN "shi_ying_bihe"
    ELSE "shi_ying_wu_shengke"

\* the if / elif chain of _analyze_shi_ying
ShiYingRelation(shi_wx, ying_wx) ==
    IF Get(WUXING_SHENG, shi_wx, "None") = ying_wx THEN "shi_sheng_ying"
    ELSE IF Get(WUXING_SHENG, ying_wx, "None") = shi_wx THEN "ying_sheng_shi"
    ELSE IF Get(WUXING_KE, shi_wx, "None") = ying_wx THEN "shi_ke_ying"
    ELSE IF Get(WUXING_KE, ying_wx, "None") = shi_wx THEN "ying_ke_shi"
    ELSE IF shi_wx = ying_wx THEN "shi_ying_bihe"
    ELSE "shi_ying_wu_shengke"

\* _analyze_shi_ying
AnalyzeShiYing(rep) ==
    LET n == Len(rep.yaos)
        shi == LastYao(rep.yaos, [p \in 1..n |-> rep.yaos[p].is_shi])
        ying == LastYao(rep.yaos, [p \in 1..n |-> rep.yaos[p].is_ying])
    IN [rep EXCEPT
          !.shi_pos = IF shi # <<>> THEN shi[1].position ELSE @,
          !.ying_pos = IF ying # <<>> THEN ying[1].position ELSE @,
          !.shi_ying_relation =
              IF shi # <<>> /\ ying # <<>>
              THEN ShiYingRelation(shi[1].wuxing, ying[1].wuxing)
              ELSE @]

\* a plausible slip: a moving line of the target's own element counted as
\* supporting it
DongJudgmentSameElement(dong, yong_shen) ==
    [text        |-> "dong",
     position    |-> dong.position,
     liuqin      |-> dong.liuqin,
     liushen     |-> dong.liushen,
     effect      |-> IF yong_shen # <<>> /\ dong.position # yong_shen[1].position
                     THEN (IF Get(WUXING_SHENG, dong.wuxing, "None") = yong_shen[1].wuxing
                              \/ dong.wuxing = yong_shen[1].wuxing
                           THEN "shengfu_yongshen"
                           ELSE IF Get(WUXING_KE, dong.wuxing, "None") = yong_shen[1].wuxing
                           THEN "kezhi_yongshen"
                           ELSE "")
                     ELSE "",
     bian_wuxing |-> dong.bian_wuxing,
     hui_tou     |-> IF dong.bian_wuxing # ""
                     THEN (IF dong.hui_tou_sheng THEN "huitou_sheng"
                           ELSE IF dong.hui_tou_ke THEN "huitou_ke" ELSE "")
                     ELSE ""]

\* the judgment _analyze_dong_yao writes for one moving line.  The sentence
\* is kept as its parts: position, kinship role, six spirit, effect on the
\* target spirit, resulting element and returning generation / overcome.
DongJudgment(dong, yong_shen) ==
    [text        |-> "dong",
     position    |-> dong.position,
     liuqin      |-> dong.liuqin,
     liushen     |-> dong.liushen,
     effect      |-> IF yong_shen # <<>> /\ dong.position # yong_shen[1].position
                     THEN (IF Get(WUXING_SHENG, dong.wuxing, "None") = yong_shen[1].wuxing
                           THEN "shengfu_yongshen"
                           ELSE IF Get(WUXING_KE, dong.wuxing, "None") = yong_shen[1].wuxing
                           THEN "kezhi_yongshen"
                           ELSE "")
                     ELSE "",
     bian_wuxing |-> dong.bian_wuxing,
     hui_tou     |-> IF dong.bian_wuxing # ""
                     THEN (IF dong.hui_tou_sheng THEN "huitou_sheng"
                           ELSE IF dong.hui_tou_ke THEN "huitou_ke" ELSE "")
                     ELSE ""]

\* the fixed judgment for a hexagram without moving lines
StaticJudgment ==
    [text |-> "liuyao_jiejing", position |-> 0, liuqin |-> "", liushen |-> "",
     effect |-> "", bian_wuxing |-> "", hui_tou |-> ""]

\* a plausible slip: the test "is not the target spirit itself" guards the
\* whole loop body, so a moving target-spirit line gets no judgment
AnalyzeDongYaoSkipTarget(rep) ==
    LET n == Len(rep.yaos)
        yongs == FilterYaos(rep.yaos, [p \in 1..n |-> rep.yaos[p].is_yong_shen])
        yong_shen == IF yongs = <<>> THEN <<>> ELSE <<yongs[1]>>
        dong_yaos == FilterYaos(rep.yaos, [p \in 1..n |-> rep.yaos[p].is_dong])
        judged == FilterYaos(rep.yaos,
                     [p \in 1..n |-> /\ rep.yaos[p].is_dong
                                     /\ (yong_shen = <<>> \/ p # yong_shen[1].position)])
    IN IF dong_yaos = <<>>
       THEN [rep EXCEPT !.dong_yao_analysis = Append(@, StaticJudgment)]
       ELSE [rep EXCEPT !.dong_yao_analysis =
                @ \o [i \in 1..Len(judged) |-> DongJudgment(judged[i], yong_shen)]]

\* _analyze_dong_yao
AnalyzeDongYao(rep) ==
    LET n == Len(rep.yaos)
        dong_yaos == FilterYaos(rep.yaos, [p \in 1..n |-> rep.yaos[p].is_dong])
        yongs == FilterYaos(rep.yaos, [p \in 1..n |-> rep.yaos[p].is_yong_shen])
        yong_shen == IF yongs = <<>> THEN <<>> ELSE <<yongs[1]>>
    IN IF dong_yaos = <<>>
       THEN [rep EXCEPT !.dong_yao_analysis = Append(@, StaticJudgment)]
       ELSE [rep EXCEPT !.dong_yao_analysis =
                @ \o [i \in 1..Len(dong_yaos) |-> DongJudgment(dong_yaos[i], yong_shen)]]

\* a plausible slip: the boundary of the top grade written with >
JiXiongStrict(score) ==
    IF score > 100 THEN "daji"
    ELSE IF score >= 80 THEN "ji"
    ELSE IF score >= 60 THEN "zhongping"
    ELSE IF score >= 40 THEN "xiaoxiong"
    ELSE "xiong"

\* the grade chain of _make_conclusion
JiXiong(score) ==
    IF score >= 100 THEN "daji"
    ELSE IF score >= 80 THEN "ji"
    ELSE IF score >= 60 THEN "zhongping"
    ELSE IF score >= 40 THEN "xiaoxiong"
    ELSE "xiong"

\* the fixed prose template each grade carries
ConclusionTemplate(ji_xiong) ==
    CASE ji_xiong = "daji"      -> "yongshen_wangxiang_youli"
      [] ji_xiong = "ji"        -> "yongshen_deli"
      [] ji_xiong = "zhongping" -> "yongshen_zhongdeng"
      [] ji_xiong = "xiaoxiong" -> "yongshen_xiuqiu"
      [] ji_xiong = "xiong"     -> "yongshen_shuairuo"

\* a plausible slip: the support clause no longer looks at the adverse lines
QualifierIgnoringJi(ji_dong, xiong_dong) ==
    IF ji_dong # <<>> THEN <<"yuanshen_fadong">>
    ELSE IF xiong_dong # <<>> /\ ji_dong = <<>> THEN <<"jishen_fadong">>
    ELSE <<>>

\* the qualifier clause of _make_conclusion
Qualifier(ji_dong, xiong_dong) ==
    IF ji_dong # <<>> /\ xiong_dong = <<>> THEN <<"yuanshen_fadong">>
    ELSE IF xiong_dong # <<>> /\ ji_dong = <<>> THEN <<"jishen_fadong">>
    ELSE <<>>

\* _make_conclusion.  conclusion is kept as <<template>> or
\* <<template, qualifier>> instead of the concatenated sentence.
MakeConclusion(rep) ==
    LET n == Len(rep.yaos)
        ji_xiong == JiXiong(rep.yong_shen_score)
        ji_dong == FilterYaos(rep.yaos,
                      [p \in 1..n |-> rep.yaos[p].is_dong /\ rep.yaos[p].is_yuan_shen])
        xiong_dong == FilterYaos(rep.yaos,
                      [p \in 1..n |-> rep.yaos[p].is_dong /\ rep.yaos[p].is_ji_shen])
    IN [rep EXCEPT !.ji_xiong = ji_xiong,
                   !.conclusion = <<ConclusionTemplate(ji_xiong)>>
                                  \o Qualifier(ji_dong, xiong_dong)]

\* a plausible slip: an unknown category falls back to the first table entry
AnalyzeFallbackFirst(qt, pr, mz, dz) ==
    LET config == Get(YONG_SHEN_MAP, qt, YONG_SHEN_MAP["shiye"])
        rep0 == [NoReport EXCEPT
                    !.question_type = qt,
                    !.yaos = [i \in 1..Len(pr.ben_gua_yaos) |->
                                BuildYaoAnalysis(pr.ben_gua_yaos[i], config, pr, mz, dz)]]
    IN MakeConclusion(AnalyzeDongYao(AnalyzeShiYing(AnalyzeYongShen(rep0))))

\* AnalysisEngine.analyze: the report after all five steps
Analyze(qt, pr, mz, dz) ==
    LET config == Get(YONG_SHEN_MAP, qt, YONG_SHEN_MAP["qita"])
        rep0 == [NoReport EXCEPT
                    !.question_type = qt,
                    !.yaos = [i \in 1..Len(pr.ben_gua_yaos) |->
                                BuildYaoAnalysis(pr.ben_gua_yaos[i], config, pr, mz, dz)]]
    IN MakeConclusion(AnalyzeDongYao(AnalyzeShiYing(AnalyzeYongShen(rep0))))

\* get_trigram_najia: the three (stem, branch) pairs of a trigram, the
\* last three branches of its list when it is the upper trigram
GetTrigramNajia(dizhi_list, is_upper) ==
    IF is_upper
    THEN <<dizhi_list[4], dizhi_list[5], dizhi_list[6]>>
    ELSE <<dizhi_list[1], dizhi_list[2], dizhi_list[3]>>

\* the six branches paipan reads for a hexagram: lower_najia[i] for i < 3,
\* upper_najia[i - 3] otherwise
HexagramDizhi(info) ==
    GetTrigramNajia(info.lower_dizhi, FALSE) \o GetTrigramNajia(info.upper_dizhi, TRUE)

\* _binary_to_hexagram_info: hex_data is what self.hexagrams.get(binary)
\* returned, NoInfo standing for None.  The exception raised, NoError when
\* the record is returned.
BinaryToHexagramInfoError(hex_data, binary) ==
    IF hex_data = NoInfo
    THEN [kind |-> "ValueError", pattern |-> binary]
    ELSE NoError

\* a plausible slip: the resulting pattern is looked up without asking
\* whether a line changes
AnalyzerErrorAlways(res, ben_data, bian_data) ==
    LET ben_error == BinaryToHexagramInfoError(ben_data, res.ben_gua_binary)
    IN IF ben_error # NoError THEN ben_error
       ELSE BinaryToHexagramInfoError(bian_data, res.bian_gua_binary)

\* HexagramAnalyzer.analyze, the exception that leaves it: that of the first
\* lookup that fails, NoError when analyze returns
AnalyzerError(res, ben_data, bian_data) ==
    LET ben_error == BinaryToHexagramInfoError(ben_data, res.ben_gua_binary)
        has_change == Len(res.changing_lines) > 0
    IN IF ben_error # NoError THEN ben_error
       ELSE IF has_change /\ res.ben_gua_binary # res.bian_gua_binary
            THEN BinaryToHexagramInfoError(bian_data, res.bian_gua_binary)
            ELSE NoError

\* HexagramAnalyzer.analyze; ben_info and bian_info are the catalog records
\* of the two patterns.  bian_gua is <<>> for None.
AnalyzerAnalyze(res, ben_info, bian_info) ==
    LET has_change == Len(res.changing_lines) > 0
    IN [ben_gua        |-> ben_info,
        bian_gua       |-> IF has_change /\ res.ben_gua_binary # res.bian_gua_binary
                           THEN <<bian_info>> ELSE <<>>,
        changing_lines |-> res.changing_lines,
        has_change     |-> has_change]

\* the HexagramResult cast_hexagram returns when its six draws are rands
HexagramResultOf(rands) ==
    LET yl == [i \in 1..NumYao |-> MakeYaoResult(i, rands[i])]
    IN [yao_list        |-> yl,
        ben_gua_binary  |-> BenGuaBinary(yl),
        bian_gua_binary |-> BianGuaBinary(yl),
        changing_lines  |-> ChangingLines(yl)]

\* one iteration of the loop of cast_hexagram: cast_single_yao(i)
CastSingleYao ==
    /\ pc = "cast"
    /\ Len(yao_list) < NumYao
    /\ \E r \in 0..RandMax :
          /\ rand' = r
          /\ yao_list' = Append(yao_list, MakeYaoResult(Len(yao_list) + 1, r))
    /\ UNCHANGED <<pc, result>>
    /\ UNCHANGED analysisVars
    /\ UNCHANGED calendarVars
    /\ UNCHANGED storageVars
    /\ UNCHANGED sessionVars

\* the rest of cast_hexagram after the loop: patterns, changing lines, return
CastHexagram ==
    /\ pc = "cast"
    /\ Len(yao_list) = NumYao
    /\ result' = [yao_list        |-> yao_list,
                  ben_gua_binary  |-> BenGuaBinary(yao_list),
                  bian_gua_binary |-> BianGuaBinary(yao_list),
                  changing_lines  |-> ChangingLines(yao_list)]
    /\ pc' = "cast_done"
    /\ UNCHANGED <<rand, yao_list>>
    /\ UNCHANGED analysisVars
    /\ UNCHANGED calendarVars
    /\ UNCHANGED storageVars
    /\ UNCHANGED sessionVars

InitCast ==
    /\ pc = "cast"
    /\ rand = 0
    /\ yao_list = <<>>
    /\ result = NoResult
    /\ knowledge = NoKnowledge
    /\ analysis = NoAnalysis
    /\ question_type = ""
    /\ month_zhi = ""
    /\ day_zhi = ""
    /\ ri_gan = ""
    /\ paipan_result = NoPaipan
    /\ report = NoReport
    /\ error = NoError
    /\ dt = NoDatetime
    /\ ganzhi_time = NoGanzhiTime
    /\ store = EmptyStore
    /\ history = NoHistory
    /\ now = 0
    /\ NoSession

NextCast == CastSingleYao \/ CastHexagram

SpecCast == InitCast /\ [][NextCast]_vars

(***************************************************************************)
(* run_divination, steps 7 and 9: catalog lookup, paipan, analysis.        *)
(***************************************************************************)
\* step 7: analysis = analyzer.analyze(result)
AnalyzeHexagram ==
    /\ pc = "lookup"
    /\ AnalyzerError(result, knowledge.ben, knowledge.bian) = NoError
    /\ analysis' = AnalyzerAnalyze(result, knowledge.ben, knowledge.bian)
    /\ pc' = "paipan"
    /\ UNCHANGED <<rand, yao_list, result, knowledge, question_type, month_zhi,
                   day_zhi, ri_gan, paipan_result, report, error>>
    /\ UNCHANGED calendarVars
    /\ UNCHANGED storageVars
    /\ UNCHANGED sessionVars

\* step 7 when analyze raises: the except clause prints the message and
\* run_divination returns
AnalyzeHexagramFails ==
    /\ pc = "lookup"
    /\ AnalyzerError(result, knowledge.ben, knowledge.bian) # NoError
    /\ error' = AnalyzerError(result, knowledge.ben, knowledge.bian)
    /\ pc' = "failed"
    /\ UNCHANGED <<rand, yao_list, result, knowledge, analysis, question_type,
                   month_zhi, day_zhi, ri_gan, paipan_result, report>>
    /\ UNCHANGED calendarVars
    /\ UNCHANGED storageVars
    /\ UNCHANGED sessionVars

\* step 9, first half: najia_engine.paipan(...)
PaipanStep ==
    /\ pc = "paipan"
    /\ paipan_result' =
          Paipan([i \in 1..NumYao |-> result.yao_list[i].value],
                 HexagramDizhi(analysis.ben_gua),
                 IF analysis.bian_gua # <<>>
                 THEN HexagramDizhi(analysis.bian_gua[1]) ELSE <<>>,
                 analysis.ben_gua.gong_wuxing,
                 analysis.ben_gua.shi_yao,
                 analysis.ben_gua.ying_yao,
                 ri_gan, month_zhi, day_zhi)
    /\ pc' = "analyze"
    /\ UNCHANGED <<rand, yao_list, result, knowledge, analysis, question_type,
                   month_zhi, day_zhi, ri_gan, report, error>>
    /\ UNCHANGED calendarVars
    /\ UNCHANGED storageVars
    /\ UNCHANGED sessionVars

\* step 9, second half: analysis_engine.analyze(...)
AnalyzeStep ==
    /\ pc = "analyze"
    /\ report' = Analyze(question_type, paipan_result, month_zhi, day_zhi)
    /\ pc' = "done"
    /\ UNCHANGED <<rand, yao_list, result, knowledge, analysis, question_type,
                   month_zhi, day_zhi, ri_gan, paipan_result, error>>
    /\ UNCHANGED calendarVars
    /\ UNCHANGED storageVars
    /\ UNCHANGED sessionVars

(***************************************************************************)
(* Inputs of the analysis flow.  The catalog and the najia table are data  *)
(* files outside the sources, so a hexagram's record is drawn from         *)
(* families of rows: a trigram's six branches run from a start branch in   *)
(* steps of 1..MaxStep through the branch cycle.                           *)
(***************************************************************************)
MaxStep == 2

NajiaList(start, step) ==
    [i \in 1..NumYao |-> DIZHI[((start + step * (i - 1)) % 12) + 1]]

Steps == 1..MaxStep
AllStarts == 0..11
BranchSet == {DIZHI[i] : i \in 1..12}

\* the categories of the menu, the seventh table entry, and one string that
\* is no key of the table
QuestionTypes ==
    {"shiye", "caiyun", "ganqing", "jiankang", "xueye", "chuxing", "qita", "hunyin"}

Info(gong_wuxing, shi, ying, lower, upper) ==
    [gong_wuxing |-> gong_wuxing, shi_yao |-> shi, ying_yao |-> ying,
     lower_dizhi |-> lower, upper_dizhi |-> upper]

\* six draws: the lines at the positions in dong are old (6 on even
\* positions, 9 on odd ones), the others young (7 odd, 8 even)
RandsOf(dong) ==
    [i \in 1..NumYao |->
        IF i \in dong THEN (IF i % 2 = 1 THEN 7 ELSE 0)
        ELSE (IF i % 2 = 1 THEN 1 ELSE 4)]

AllPositions == 1..NumYao

\* strength and kinship: every month branch, house element and start branch
InitStrength ==
    /\ question_type = "qita"
    /\ day_zhi = "zi"
    /\ ri_gan = "jia"
    /\ month_zhi \in BranchSet
    /\ result = HexagramResultOf(RandsOf({}))
    /\ \E g \in WUXING, s \in AllStarts, st \in Steps :
          knowledge = [ben  |-> Info(g, 1, 4, NajiaList(s, st), NajiaList(s, st)),
                       bian |-> NoInfo]

\* scoring: every month and day branch, all lines static or all moving
InitScore ==
    /\ question_type = "qita"
    /\ month_zhi \in BranchSet
    /\ day_zhi \in BranchSet
    /\ ri_gan = "bing"
    /\ result \in {HexagramResultOf(RandsOf({})), HexagramResultOf(RandsOf(AllPositions))}
    /\ \E s \in {0, 1}, b \in AllStarts, st \in Steps :
          knowledge = [ben  |-> Info("jin", 1, 4, NajiaList(s, st), NajiaList(s, st)),
                       bian |-> IF result.changing_lines = <<>> THEN NoInfo
                                ELSE Info("jin", 1, 4, NajiaList(b, st), NajiaList(b, st))]

\* roles: every category and every set of moving lines
InitRoles ==
    /\ question_type \in QuestionTypes
    /\ month_zhi = "yin"
    /\ day_zhi = "wu"
    /\ ri_gan = "wu4"
    /\ \E dong \in SUBSET AllPositions : result = HexagramResultOf(RandsOf(dong))
    /\ \E g \in WUXING, s \in {0, 3}, b \in {2, 7}, st \in Steps :
          knowledge = [ben  |-> Info(g, 2, 5, NajiaList(s, st), NajiaList(s, st)),
                       bian |-> IF result.changing_lines = <<>> THEN NoInfo
                                ELSE Info(g, 2, 5, NajiaList(b, st), NajiaList(b, st))]

\* subject and counterpart: every pair of trigram rows, the counterpart
\* three places from the subject
InitShiYing ==
    /\ question_type = "qita"
    /\ month_zhi = "yin"
    /\ day_zhi = "wu"
    /\ ri_gan = "geng"
    /\ result = HexagramResultOf(RandsOf({}))
    /\ \E shi \in AllPositions, sl \in AllStarts, su \in AllStarts, st \in Steps :
          knowledge = [ben  |-> Info("tu", shi, ((shi + 2) % 6) + 1,
                                     NajiaList(sl, st), NajiaList(su, st)),
                       bian |-> NoInfo]

StemSet == {"jia", "yi", "bing", "ding", "wu4", "ji3", "geng", "xin", "ren", "gui"}

\* resulting hexagram: every day stem, a resulting hexagram of another house
\* than the original one
InitResulting ==
    /\ question_type = "qita"
    /\ month_zhi = "zi"
    /\ day_zhi = "zi"
    /\ ri_gan \in StemSet
    /\ \E dong \in {{}, {1}, {3, 4}, AllPositions} :
          result = HexagramResultOf(RandsOf(dong))
    /\ \E g \in WUXING, s \in {0, 5}, b \in {1, 8}, st \in Steps :
          knowledge = [ben  |-> Info(g, 3, 6, NajiaList(s, st), NajiaList(s, st)),
                       bian |-> IF result.changing_lines = <<>> THEN NoInfo
                                ELSE Info(WUXING_SHENG[g], 1, 4,
                                          NajiaList(b, st), NajiaList(b, st))]

\* catalog: the record of the original or of the resulting pattern may be
\* missing from hexagrams.json
InitCatalog ==
    /\ question_type = "qita"
    /\ month_zhi = "zi"
    /\ day_zhi = "zi"
    /\ ri_gan = "jia"
    /\ \E dong \in SUBSET AllPositions : result = HexagramResultOf(RandsOf(dong))
    /\ \E ben_there \in BOOLEAN, bian_there \in BOOLEAN :
          /\ ~(ben_there /\ bian_there)
          /\ knowledge =
                [ben  |-> IF ben_there
                          THEN Info("mu", 1, 4, NajiaList(0, 1), NajiaList(0, 1))
                          ELSE NoInfo,
                 bian |-> IF bian_there
                          THEN Info("mu", 1, 4, NajiaList(6, 1), NajiaList(6, 1))
                          ELSE NoInfo]

InitAnalysis ==
    /\ pc = "lookup"
    /\ rand = 0
    /\ yao_list = <<>>
    /\ analysis = NoAnalysis
    /\ paipan_result = NoPaipan
    /\ report = NoReport
    /\ error = NoError
    /\ dt = NoDatetime
    /\ ganzhi_time = NoGanzhiTime
    /\ store = EmptyStore
    /\ history = NoHistory
    /\ now = 0
    /\ NoSession
    /\ (InitStrength \/ InitScore \/ InitRoles \/ InitShiYing \/ InitResulting
        \/ InitCatalog)

NextAnalysis == AnalyzeHexagram \/ AnalyzeHexagramFails \/ PaipanStep \/ AnalyzeStep

\* single mutating line: one line of the cast mutates, at every position, in
\* every month and on every day, the resulting trigram rows from every start
InitReturning ==
    /\ question_type = "qita"
    /\ month_zhi \in BranchSet
    /\ day_zhi \in BranchSet
    /\ ri_gan = "ren"
    /\ \E p \in AllPositions : result = HexagramResultOf(RandsOf({p}))
    /\ \E b \in AllStarts, st \in Steps :
          knowledge = [ben  |-> Info("shui", 1, 4, NajiaList(0, st), NajiaList(0, st)),
                       bian |-> Info("shui", 1, 4, NajiaList(b, st), NajiaList(b, st))]

InitSingleDong ==
    /\ pc = "lookup"
    /\ rand = 0
    /\ yao_list = <<>>
    /\ analysis = NoAnalysis
    /\ paipan_result = NoPaipan
    /\ report = NoReport
    /\ error = NoError
    /\ dt = NoDatetime
    /\ ganzhi_time = NoGanzhiTime
    /\ store = EmptyStore
    /\ history = NoHistory
    /\ now = 0
    /\ NoSession
    /\ (InitReturning \/ InitCatalog)

SpecSingleDong == InitSingleDong /\ [][NextAnalysis]_vars

\* the same flow on keys that may lie outside the tables: a month branch, a
\* day branch, a day stem or a house name that is no key of its table
InitLookup ==
    /\ pc = "lookup"
    /\ rand = 0
    /\ yao_list = <<>>
    /\ analysis = NoAnalysis
    /\ paipan_result = NoPaipan
    /\ report = NoReport
    /\ error = NoError
    /\ dt = NoDatetime
    /\ ganzhi_time = NoGanzhiTime
    /\ store = EmptyStore
    /\ history = NoHistory
    /\ now = 0
    /\ NoSession
    /\ question_type \in {"qita", "caiyun"}
    /\ month_zhi \in {"yin", "zi", "unknown"}
    /\ day_zhi \in {"wu", "unknown"}
    /\ ri_gan \in {"jia", "ren", "unknown"}
    /\ \E dong \in {{}, {2}, {1, 6}} : result = HexagramResultOf(RandsOf(dong))
    /\ \E g \in {"huo", "unknown"}, s \in {0, 4}, st \in Steps, ben_there \in BOOLEAN :
          knowledge =
             [ben  |-> IF ben_there
                       THEN Info(g, 2, 5, NajiaList(s, st), NajiaList(s, st))
                       ELSE NoInfo,
              bian |-> IF result.changing_lines = <<>> THEN NoInfo
                       ELSE Info(g, 2, 5, NajiaList(s + 3, st), NajiaList(s + 3, st))]

SpecLookup == InitLookup /\ [][NextAnalysis]_vars

SpecAnalysis == InitAnalysis /\ [][NextAnalysis]_vars

(***************************************************************************)
(* ganzhi.py: the stem / branch pairs of a timestamp.                      *)
(***************************************************************************)
TIANGAN == <<"jia", "yi", "bing", "ding", "wu4", "ji3", "geng", "xin", "ren", "gui">>

\* list.index(x)
IndexOf(seq, x) == (CHOOSE i \in 1..Len(seq) : seq[i] = x) - 1

\* HOUR_TO_DIZHI: hour of the day -> branch index
HOUR_TO_DIZHI ==
    [h \in 0..23 |->
        <<0, 1, 1, 2, 2, 3, 3, 4, 4, 5, 5, 6,
          6, 7, 7, 8, 8, 9, 9, 10, 10, 11, 11, 0>>[h + 1]]

\* JIEQI: (month, day, is_jie) of the 24 solar terms; the names are left out
JIEQI ==
    <<[month |-> 1, day |-> 6, is_jie |-> TRUE],   [month |-> 1, day |-> 20, is_jie |-> FALSE],
      [month |-> 2, day |-> 4, is_jie |-> TRUE],   [month |-> 2, day |-> 19, is_jie |-> FALSE],
      [month |-> 3, day |-> 6, is_jie |-> TRUE],   [month |-> 3, day |-> 21, is_jie |-> FALSE],
      [month |-> 4, day |-> 5, is_jie |-> TRUE],   [month |-> 4, day |-> 20, is_jie |-> FALSE],
      [month |-> 5, day |-> 6, is_jie |-> TRUE],   [month |-> 5, day |-> 21, is_jie |-> FALSE],
      [month |-> 6, day |-> 6, is_jie |-> TRUE],   [month |-> 6, day |-> 21, is_jie |-> FALSE],
      [month |-> 7, day |-> 7, is_jie |-> TRUE],   [month |-> 7, day |-> 23, is_jie |-> FALSE],
      [month |-> 8, day |-> 7, is_jie |-> TRUE],   [month |-> 8, day |-> 23, is_jie |-> FALSE],
      [month |-> 9, day |-> 8, is_jie |-> TRUE],   [month |-> 9, day |-> 23, is_jie |-> FALSE],
      [month |-> 10, day |-> 8, is_jie |-> TRUE],  [month |-> 10, day |-> 23, is_jie |-> FALSE],
      [month |-> 11, day |-> 7, is_jie |-> TRUE],  [month |-> 11, day |-> 22, is_jie |-> FALSE],
      [month |-> 12, day |-> 7, is_jie |-> TRUE],  [month |-> 12, day |-> 22, is_jie |-> FALSE]>>

\* calc_year_ganzhi
CalcYearGanzhi(year) ==
    LET gan_index == (year - 4) % 10
        zhi_index == (year - 4) % 12
    IN <<TIANGAN[gan_index + 1], DIZHI[zhi_index + 1]>>

\* x or 12
Or12(x) == IF x # 0 THEN x ELSE 12

\* the loop of _get_lunar_month from index i (0-based) on; the fallback
\* "return month" when the loop runs out
RECURSIVE GetLunarMonthFrom(_, _, _)
GetLunarMonthFrom(i, month, day) ==
    IF i >= Len(JIEQI) THEN month
    ELSE LET jq == JIEQI[i + 1]
         IN IF jq.is_jie
            THEN IF month = jq.month
                 THEN (IF day < jq.day
                       THEN Or12((i \div 2) % 12)
                       ELSE Or12(((i \div 2) + 1) % 12))
                 ELSE IF month < jq.month
                      THEN Or12((i \div 2) % 12)
                      ELSE GetLunarMonthFrom(i + 1, month, day)
            ELSE GetLunarMonthFrom(i + 1, month, day)

\* a plausible slip: day <= jie_day, the boundary day itself still counted
\* to the month before
GetLunarMonthLate(month, day) ==
    LET i == 2 * (month - 1)
    IN IF day <= JIEQI[i + 1].day THEN Or12((i \div 2) % 12)
       ELSE Or12(((i \div 2) + 1) % 12)

\* _get_lunar_month
GetLunarMonth(month, day) == GetLunarMonthFrom(0, month, day)

\* a plausible slip: the stem is counted from the month number itself, not
\* from month - 1
CalcMonthGanzhiOffByOne(year, month, day) ==
    LET lunar_month == GetLunarMonth(month, day)
        zhi_index == (lunar_month + 1) % 12
        year_gan_index == IndexOf(TIANGAN, CalcYearGanzhi(year)[1])
        base_gan == <<2, 4, 6, 8, 0>>
        first_month_gan == base_gan[(year_gan_index % 5) + 1]
        gan_index == (first_month_gan + lunar_month) % 10
    IN <<TIANGAN[gan_index + 1], DIZHI[zhi_index + 1]>>

\* calc_month_ganzhi
CalcMonthGanzhi(year, month, day) ==
    LET lunar_month == GetLunarMonth(month, day)
        zhi_index == (lunar_month + 1) % 12
        year_gan_index == IndexOf(TIANGAN, CalcYearGanzhi(year)[1])
        base_gan == <<2, 4, 6, 8, 0>>
        first_month_gan == base_gan[(year_gan_index % 5) + 1]
        gan_index == (first_month_gan + lunar_month - 1) % 10
    IN <<TIANGAN[gan_index + 1], DIZHI[zhi_index + 1]>>

IsLeap(year) == (year % 4 = 0) /\ ((year % 100 # 0) \/ (year % 400 = 0))

DaysInMonth(year, month) ==
    IF month = 2 THEN (IF IsLeap(year) THEN 29 ELSE 28)
    ELSE IF month \in {4, 6, 9, 11} THEN 30 ELSE 31

\* date(year, month, day).toordinal(): the days of the proleptic Gregorian
\* calendar up to and including the date
RECURSIVE DaysBeforeMonth(_, _)
DaysBeforeMonth(year, month) ==
    IF month = 1 THEN 0
    ELSE DaysBeforeMonth(year, month - 1) + DaysInMonth(year, month - 1)

ToOrdinal(year, month, day) ==
    LET y == year - 1
    IN y * 365 + (y \div 4) - (y \div 100) + (y \div 400)
       + DaysBeforeMonth(year, month) + day

\* (target_date - base_date).days with base_date = date(2000, 1, 1)
DaysDiff(year, month, day) == ToOrdinal(year, month, day) - ToOrdinal(2000, 1, 1)

\* a plausible slip: the remainder of a truncating division, which is
\* negative for dates before the base date, made an index by its magnitude
CalcDayGanzhiTruncating(year, month, day) ==
    LET days_diff == DaysDiff(year, month, day)
        base_gan == 0
        base_zhi == 4
        Rem(a, n) == IF a >= 0 THEN a % n ELSE 0 - ((0 - a) % n)
        Abs(a) == IF a >= 0 THEN a ELSE 0 - a
        gan_index == Abs(Rem(base_gan + days_diff, 10))
        zhi_index == Abs(Rem(base_zhi + days_diff, 12))
    IN <<TIANGAN[gan_index + 1], DIZHI[zhi_index + 1]>>

\* calc_day_ganzhi; Python's % with a positive modulus is never negative
CalcDayGanzhi(year, month, day) ==
    LET days_diff == DaysDiff(year, month, day)
        base_gan == 0
        base_zhi == 4
        gan_index == (base_gan + days_diff) % 10
        zhi_index == (base_zhi + days_diff) % 12
    IN <<TIANGAN[gan_index + 1], DIZHI[zhi_index + 1]>>

\* calc_hour_ganzhi
CalcHourGanzhi(year, month, day, hour) ==
    LET zhi_index == Get(HOUR_TO_DIZHI, hour, 0)
        day_gan_index == IndexOf(TIANGAN, CalcDayGanzhi(year, month, day)[1])
        base_gan == <<0, 2, 4, 6, 8>>
        zi_hour_gan == base_gan[(day_gan_index % 5) + 1]
        gan_index == (zi_hour_gan + zhi_index) % 10
    IN <<TIANGAN[gan_index + 1], DIZHI[zhi_index + 1]>>

\* calculate
Calculate(d) ==
    LET y == CalcYearGanzhi(d.year)
        m == CalcMonthGanzhi(d.year, d.month, d.day)
        dd == CalcDayGanzhi(d.year, d.month, d.day)
        h == CalcHourGanzhi(d.year, d.month, d.day, d.hour)
    IN [year_gan |-> y[1], year_zhi |-> y[2],
        month_gan |-> m[1], month_zhi |-> m[2],
        day_gan |-> dd[1], day_zhi |-> dd[2],
        hour_gan |-> h[1], hour_zhi |-> h[2]]

\* run_divination, step 5.5: ganzhi_time = ganzhi_calc.calculate(timestamp)
CalculateGanzhi ==
    /\ pc = "calendar"
    /\ ganzhi_time' = Calculate(dt)
    /\ pc' = "calendar_done"
    /\ UNCHANGED <<rand, yao_list, result, dt>>
    /\ UNCHANGED analysisVars
    /\ UNCHANGED storageVars
    /\ UNCHANGED sessionVars

\* the timestamps of the model: every date of the years FirstYear..LastYear
\* at the hours of Hours
FirstYear == 1997
LastYear == 2001
Hours == {0, 11, 23}

Datetimes ==
    {d \in [year : FirstYear..LastYear, month : 1..12, day : 1..31, hour : Hours] :
        d.day <= DaysInMonth(d.year, d.month)}

InitCalendar ==
    /\ pc = "calendar"
    /\ rand = 0
    /\ yao_list = <<>>
    /\ result = NoResult
    /\ knowledge = NoKnowledge
    /\ analysis = NoAnalysis
    /\ question_type = ""
    /\ month_zhi = ""
    /\ day_zhi = ""
    /\ ri_gan = ""
    /\ paipan_result = NoPaipan
    /\ report = NoReport
    /\ error = NoError
    /\ dt \in Datetimes
    /\ ganzhi_time = NoGanzhiTime
    /\ store = EmptyStore
    /\ history = NoHistory
    /\ now = 0
    /\ NoSession

NextCalendar == CalculateGanzhi

SpecCalendar == InitCalendar /\ [][NextCalendar]_vars

(***************************************************************************)
(* History store (core/storage.py).  The history file is the variable      *)
(* store; a record is kept by its id, its creation time, its category, its *)
(* interpretation and its follow-ups (<<>> while the key is absent).       *)
(* uuid4 ids are fresh, so the id of a record is the tick of its creation. *)
(***************************************************************************)
max_records == 1000

DefaultLimit == 10

\* the number of save_record calls of one run
MaxSaves == 4

\* the number of follow-ups kept with one record
MaxFollowups == 2

Take(seq, n) == SubSeq(seq, 1, Min2(n, Len(seq)))

\* a plausible slip: list.append in the place of insert(0, record)
SaveRecordDataAppend(data, record) ==
    LET records == Append(data.records, record)
        by_type == data.statistics.by_type
        qt == record.question_type
    IN [records |-> IF Len(records) > max_records THEN Take(records, max_records)
                    ELSE records,
        statistics |->
            [total_count |-> data.statistics.total_count + 1,
             by_type |-> [t \in (DOMAIN by_type) \cup {qt} |->
                             IF t = qt THEN Get(by_type, qt, 0) + 1 ELSE by_type[t]]]]

\* save_record on the loaded data: the record goes to the front, the
\* statistics count it, and the list is cut to its first max_records entries
SaveRecordData(data, record) ==
    LET records == <<record>> \o data.records
        by_type == data.statistics.by_type
        qt == record.question_type
    IN [records |-> IF Len(records) > max_records THEN Take(records, max_records)
                    ELSE records,
        statistics |->
            [total_count |-> data.statistics.total_count + 1,
             by_type |-> [t \in (DOMAIN by_type) \cup {qt} |->
                             IF t = qt THEN Get(by_type, qt, 0) + 1 ELSE by_type[t]]]]

\* [r for r in records[lo..hi] if r["question_type"] == qt]
RECURSIVE FilterByType(_, _, _, _)
FilterByType(records, qt, lo, hi) ==
    IF lo > hi THEN <<>>
    ELSE IF lo = hi
    THEN (IF records[lo].question_type = qt THEN <<records[lo]>> ELSE <<>>)
    ELSE LET mid == (lo + hi) \div 2
         IN FilterByType(records, qt, lo, mid) \o FilterByType(records, qt, mid + 1, hi)

\* get_history on the loaded data; the empty string stands for no filter
GetHistoryData(data, limit, qt) ==
    LET records == IF qt # "" THEN FilterByType(data.records, qt, 1, Len(data.records))
                   ELSE data.records
    IN Take(records, limit)

\* Storage.save_record; the clock advances by one tick per record
SaveRecord(qt) ==
    /\ pc = "menu"
    /\ now < MaxSaves
    /\ now' = now + 1
    /\ store' = SaveRecordData(store,
                     [id |-> now', created_at |-> now', question_type |-> qt,
                      interpretation |-> "interpretation", followups |-> <<>>])
    /\ UNCHANGED <<pc, history>>
    /\ UNCHANGED <<rand, yao_list, result>>
    /\ UNCHANGED analysisVars
    /\ UNCHANGED calendarVars
    /\ UNCHANGED sessionVars

\* Storage.get_history
GetHistory(limit, qt) ==
    /\ pc = "menu"
    /\ pc' = "listed"
    /\ history' = [limit |-> limit, question_type |-> qt,
                   records |-> GetHistoryData(store, limit, qt)]
    /\ UNCHANGED <<store, now>>
    /\ UNCHANGED <<rand, yao_list, result>>
    /\ UNCHANGED analysisVars
    /\ UNCHANGED calendarVars
    /\ UNCHANGED sessionVars

\* the caller is done with the list and is back at the menu
BackToMenu ==
    /\ pc = "listed"
    /\ pc' = "menu"
    /\ history' = NoHistory
    /\ UNCHANGED <<store, now>>
    /\ UNCHANGED <<rand, yao_list, result>>
    /\ UNCHANGED analysisVars
    /\ UNCHANGED calendarVars
    /\ UNCHANGED sessionVars

\* records.sort(key=created_at, reverse=True): a stable sort, so a list that
\* is in order already stays as it is; otherwise record i goes behind the
\* records with a later time and the earlier records with the same time
SortByCreatedDesc(records) ==
    LET n == Len(records)
    IN IF \A i \in 1..(n - 1) : records[i].created_at >= records[i + 1].created_at
       THEN records
       ELSE LET rank == [i \in 1..n |->
                           Cardinality({j \in 1..n :
                               \/ records[j].created_at > records[i].created_at
                               \/ (j < i /\ records[j].created_at = records[i].created_at)})
                           + 1]
            IN [k \in 1..n |-> records[CHOOSE i \in 1..n : rank[i] = k]]

\* the records the loop of import_from_json appends, in file order: those
\* whose id is not stored yet and has not occurred earlier in the file
ImportedRecords(data, new_records) ==
    LET n == Len(new_records)
        existing_ids == {data.records[j].id : j \in 1..Len(data.records)}
        file_ids == {new_records[i].id : i \in 1..n}
    IN IF Cardinality(file_ids) = n
       THEN SelectSeq(new_records, LAMBDA r : r.id \notin existing_ids)
       ELSE LET kept == {i \in 1..n :
                           /\ new_records[i].id \notin existing_ids
                           /\ \A j \in 1..(i - 1) : new_records[j].id # new_records[i].id}
                place == [i \in kept |-> Cardinality({j \in kept : j <= i})]
            IN [k \in 1..Cardinality(kept) |->
                  new_records[CHOOSE i \in kept : place[i] = k]]

\* import_from_json on the loaded data: the new records are appended and
\* counted by category, then the list is sorted
ImportData(data, new_records) ==
    LET imported == ImportedRecords(data, new_records)
        by_type == data.statistics.by_type
        q_types == {imported[i].question_type : i \in 1..Len(imported)}
    IN [records |-> SortByCreatedDesc(data.records \o imported),
        statistics |->
           [total_count |-> data.statistics.total_count + Len(imported),
            by_type |-> [t \in (DOMAIN by_type) \cup q_types |->
                           Get(by_type, t, 0)
                           + Len(SelectSeq(imported, LAMBDA r : r.question_type = t))]]]

\* save_followup on the loaded data: the follow-up goes to the first record
\* with the id; without such a record nothing is written
SaveFollowupData(data, target_id, followup) ==
    LET hits == {i \in 1..Len(data.records) : data.records[i].id = target_id}
    IN IF hits = {} THEN data
       ELSE LET first == CHOOSE i \in hits : \A j \in hits : i <= j
            IN [data EXCEPT !.records[first].followups = Append(@, followup)]

\* Storage.import_from_json
ImportFromJson(new_records) ==
    /\ pc = "menu"
    /\ store' = ImportData(store, new_records)
    /\ UNCHANGED <<pc, history, now>>
    /\ UNCHANGED <<rand, yao_list, result>>
    /\ UNCHANGED analysisVars
    /\ UNCHANGED calendarVars
    /\ UNCHANGED sessionVars

\* Storage.save_followup
SaveFollowup(target_id) ==
    /\ pc = "menu"
    /\ {i \in 1..Len(store.records) :
            /\ store.records[i].id = target_id
            /\ Len(store.records[i].followups) >= MaxFollowups} = {}
    /\ store' = SaveFollowupData(store, target_id,
                     [timestamp |-> now, question |-> "followup", answer |-> "answer"])
    /\ UNCHANGED <<pc, history, now>>
    /\ UNCHANGED <<rand, yao_list, result>>
    /\ UNCHANGED analysisVars
    /\ UNCHANGED calendarVars
    /\ UNCHANGED sessionVars

\* Storage.clear_history
ClearHistory ==
    /\ pc = "menu"
    /\ store' = EmptyStore
    /\ UNCHANGED <<pc, history, now>>
    /\ UNCHANGED <<rand, yao_list, result>>
    /\ UNCHANGED analysisVars
    /\ UNCHANGED calendarVars
    /\ UNCHANGED sessionVars

\* the categories of the saved records and the filters of get_history
SavedTypes == {"shiye", "caiyun"}
FilterTypes == {"", "shiye", "caiyun", "ganqing"}
Limits == {1, 3, DefaultLimit}

\* the history file as n earlier save_record calls left it: their ticks lie
\* before the start of the clock, the categories alternate, the even calls
\* being "shiye"
CountType(n, qt) ==
    IF qt = "shiye" THEN n \div 2 ELSE n - (n \div 2)

StoreAfter(n) ==
    IF n = 0 THEN EmptyStore
    ELSE [records |-> [i \in 1..n |->
                         [id |-> 1 - i, created_at |-> 1 - i,
                          question_type |-> IF (n + 1 - i) % 2 = 0 THEN "shiye"
                                            ELSE "caiyun",
                          interpretation |-> "interpretation", followups |-> <<>>]],
          statistics |-> [total_count |-> n,
                          by_type |-> [t \in {"caiyun"} \cup (IF n > 1 THEN {"shiye"} ELSE {})
                                          |-> CountType(n, t)]]]

InitStorage ==
    /\ pc = "menu"
    /\ rand = 0
    /\ yao_list = <<>>
    /\ result = NoResult
    /\ knowledge = NoKnowledge
    /\ analysis = NoAnalysis
    /\ question_type = ""
    /\ month_zhi = ""
    /\ day_zhi = ""
    /\ ri_gan = ""
    /\ paipan_result = NoPaipan
    /\ report = NoReport
    /\ error = NoError
    /\ dt = NoDatetime
    /\ ganzhi_time = NoGanzhiTime
    /\ \E n \in {0, max_records - 2} : store = StoreAfter(n)
    /\ history = NoHistory
    /\ now = 0
    /\ NoSession

NextStorage ==
    \/ \E qt \in SavedTypes : SaveRecord(qt)
    \/ \E limit \in Limits, qt \in FilterTypes : GetHistory(limit, qt)
    \/ BackToMenu

SpecStorage == InitStorage /\ [][NextStorage]_vars

\* an exported record of an earlier run, k ticks before the start of the
\* clock
ExportedRecord(k) ==
    [id |-> 0 - k, created_at |-> 0 - k,
     question_type |-> IF k % 2 = 0 THEN "shiye" ELSE "qita",
     interpretation |-> "interpretation", followups |-> <<>>]

\* the files handed to import_from_json: an export of max_records + 1
\* records, newest first, and a file of the raw format with its two newest
\* records, oldest first, one of them a second time under another category
ImportFiles ==
    {[i \in 1..(max_records + 1) |-> ExportedRecord(i)],
     <<ExportedRecord(2), ExportedRecord(1),
       [ExportedRecord(2) EXCEPT !.question_type = "caiyun"]>>}

\* the store of a first run: no history file exists yet
InitStore ==
    /\ pc = "menu"
    /\ rand = 0
    /\ yao_list = <<>>
    /\ result = NoResult
    /\ knowledge = NoKnowledge
    /\ analysis = NoAnalysis
    /\ question_type = ""
    /\ month_zhi = ""
    /\ day_zhi = ""
    /\ ri_gan = ""
    /\ paipan_result = NoPaipan
    /\ report = NoReport
    /\ error = NoError
    /\ dt = NoDatetime
    /\ ganzhi_time = NoGanzhiTime
    /\ store = EmptyStore
    /\ history = NoHistory
    /\ now = 0
    /\ NoSession

NextStore ==
    \/ \E qt \in SavedTypes : SaveRecord(qt)
    \/ \E new_records \in ImportFiles : ImportFromJson(new_records)
    \/ \E target_id \in {0, now} : SaveFollowup(target_id)
    \/ ClearHistory

SpecStore == InitStore /\ [][NextStore]_vars

(***************************************************************************)
(* llm_client.py and main.py: interpretation, follow-ups, re-interpretation*)
(* A text is kept as the sequence of the pieces it was put together from:  *)
(* "content" for a piece the service produced, "error" for the bracketed   *)
(* error message the generators yield from their except clause, "prompt"   *)
(* for the prompt of build_prompt, "followup" for a follow-up question.    *)
(* The empty text is <<>>.                                                 *)
(***************************************************************************)
max_followups == 5

\* the number of run_divination calls of one run of the program
MaxRuns == 2

\* how a call of the text-generation service ends: it delivers content,
\* delivers no content, raises before the first piece, or raises after it
Outcomes == {"ok", "empty", "fails", "fails_midway"}

\* LLMClient.generate as its caller's loop collects it: the pieces of the
\* stream, then the error message when the service raised
GenerateText(outcome) ==
    CASE outcome = "ok"           -> <<"content">>
      [] outcome = "empty"        -> <<>>
      [] outcome = "fails"        -> <<"error">>
      [] outcome = "fails_midway" -> <<"content", "error">>

\* LLMClient.add_to_history
AddToHistory(conversation, role, content) ==
    Append(conversation, [role |-> role, content |-> content])

\* LLMClient.generate_followup, fully consumed: the question is appended
\* first; the answer is appended after the stream ended without exception
GenerateFollowup(conversation, followup, outcome) ==
    LET asked == AddToHistory(conversation, "user", followup)
        response == GenerateText(outcome)
    IN [conversation_history |->
            IF outcome \in {"ok", "empty"}
            THEN AddToHistory(asked, "assistant", response)
            ELSE asked,
        response |-> response]

\* the record save_record builds in run_divination.  The catalog has one
\* entry per six-bit pattern, so a pattern stands for the full name of its
\* entry; bian_gua is <<>> for None.
DivinationRecord(res, qt, text, tick) ==
    [id |-> tick, created_at |-> tick, question_type |-> qt,
     yao_sequence |-> [i \in 1..Len(res.yao_list) |-> res.yao_list[i].value],
     ben_gua |-> res.ben_gua_binary,
     bian_gua |-> IF Len(res.changing_lines) > 0
                     /\ res.ben_gua_binary # res.bian_gua_binary
                  THEN <<res.bian_gua_binary>> ELSE <<>>,
     changing_lines |-> res.changing_lines,
     interpretation |-> text,
     followups |-> <<>>]

\* run_divination up to the first follow-up prompt: the cast (steps 1 to
\* 11, whose analysis is modelled above), step 12 collecting the
\* interpretation, step 13 saving the record when the text is not empty,
\* step 14 seeding the conversation
RunDivination(rands, qt, outcome) ==
    /\ pc = "menu"
    /\ now < MaxRuns
    /\ now' = now + 1
    /\ rand' = rands[NumYao]
    /\ result' = HexagramResultOf(rands)
    /\ yao_list' = result'.yao_list
    /\ question_type' = qt
    /\ interpretation_text' = GenerateText(outcome)
    /\ IF interpretation_text' # <<>>
       THEN /\ store' = SaveRecordData(store,
                            DivinationRecord(result', qt, interpretation_text', now'))
            /\ record_id' = now'
       ELSE /\ store' = store
            /\ record_id' = NoRecordId
    /\ conversation_history' =
          AddToHistory(AddToHistory(<<>>, "user", <<"prompt">>),
                       "assistant", interpretation_text')
    /\ followup_count' = 0
    /\ followup_response' = <<>>
    /\ pc' = "followup"
    /\ UNCHANGED <<knowledge, analysis, month_zhi, day_zhi, ri_gan,
                   paipan_result, report, error>>
    /\ UNCHANGED calendarVars
    /\ UNCHANGED <<history, stored_record, mock_result>>

\* one turn of followup_loop with a question typed in: the answer is
\* collected and, when there is a record and the answer is not empty, saved
\* with the record
Followup(outcome) ==
    /\ pc = "followup"
    /\ followup_count < max_followups
    /\ followup_count < MaxFollowups
    /\ followup_count' = followup_count + 1
    /\ LET g == GenerateFollowup(conversation_history, <<"followup">>, outcome)
       IN /\ conversation_history' = g.conversation_history
          /\ followup_response' = g.response
          /\ store' = IF record_id # NoRecordId /\ g.response # <<>>
                      THEN SaveFollowupData(store, record_id,
                               [timestamp |-> now, question |-> <<"followup">>,
                                answer |-> g.response])
                      ELSE store
    /\ UNCHANGED <<pc, rand, yao_list, result>>
    /\ UNCHANGED analysisVars
    /\ UNCHANGED calendarVars
    /\ UNCHANGED <<history, now, interpretation_text, record_id,
                   stored_record, mock_result>>

\* followup_loop ends (an empty line, or the count is used up) and
\* run_divination returns: its locals and its LLMClient are gone
EndFollowups ==
    /\ pc = "followup"
    /\ pc' = "menu"
    /\ conversation_history' = <<>>
    /\ interpretation_text' = <<>>
    /\ record_id' = NoRecordId
    /\ followup_count' = 0
    /\ followup_response' = <<>>
    /\ UNCHANGED <<rand, yao_list, result>>
    /\ UNCHANGED analysisVars
    /\ UNCHANGED calendarVars
    /\ UNCHANGED <<store, history, now, stored_record, mock_result>>

\* the YaoResult list reinterpret_record rebuilds from a yao_sequence
MockYaoList(yao_sequence) ==
    [i \in 1..Len(yao_sequence) |->
        [position    |-> i,
         value       |-> yao_sequence[i],
         yao_type    |-> "",
         is_yang     |-> yao_sequence[i] \in {7, 9},
         is_changing |-> yao_sequence[i] \in {6, 9}]]

\* MockResult(yao_list, record['changing_lines']): the attributes its
\* __init__ sets
MockResult(rec, tick) ==
    [yao_list       |-> MockYaoList(rec.yao_sequence),
     changing_lines |-> rec.changing_lines,
     timestamp      |-> tick]

\* getattr on an object: an attribute that was never set raises
\* AttributeError
AttributeErrorOf(obj, names) ==
    IF \E name \in names : name \notin DOMAIN obj
    THEN [kind |-> "AttributeError", pattern |-> <<>>]
    ELSE NoError

\* analyzer.analyze(mock_result) in reinterpret_record, the exception that
\* leaves it: analyze reads result.ben_gua_binary first, and
\* result.bian_gua_binary when a line changes; the catalog is complete
MockAnalyzerError(mock) ==
    LET ben_error == AttributeErrorOf(mock, {"ben_gua_binary"})
        has_change == Len(mock.changing_lines) > 0
    IN IF ben_error # NoError THEN ben_error
       ELSE IF has_change THEN AttributeErrorOf(mock, {"bian_gua_binary"})
       ELSE NoError

\* reinterpret_record on the k-th stored record: the cast is rebuilt and
\* analysed, the new interpretation collected and, on confirmation, saved as
\* a follow-up of the record; any exception ends in the except clause
ReinterpretRecord(k, outcome, confirm) ==
    /\ pc = "menu"
    /\ k \in 1..Len(store.records)
    /\ stored_record' = store.records[k]
    /\ mock_result' = MockResult(stored_record', now)
    /\ error' = MockAnalyzerError(mock_result')
    /\ IF error' # NoError
       THEN /\ interpretation_text' = <<>>
            /\ store' = store
       ELSE /\ interpretation_text' = GenerateText(outcome)
            /\ store' = IF confirm
                        THEN SaveFollowupData(store, stored_record'.id,
                                 [timestamp |-> now, question |-> <<"reinterpret">>,
                                  answer |-> interpretation_text'])
                        ELSE store
    /\ pc' = "reinterpreted"
    /\ UNCHANGED <<rand, yao_list, result>>
    /\ UNCHANGED <<knowledge, analysis, question_type, month_zhi, day_zhi,
                   ri_gan, paipan_result, report>>
    /\ UNCHANGED calendarVars
    /\ UNCHANGED <<history, now, conversation_history, record_id,
                   followup_count, followup_response>>

\* reinterpret_record has returned to the record view, and that to the menu
ReturnToMenu ==
    /\ pc = "reinterpreted"
    /\ pc' = "menu"
    /\ stored_record' = NoRecord
    /\ mock_result' = NoMockResult
    /\ interpretation_text' = <<>>
    /\ error' = NoError
    /\ UNCHANGED <<rand, yao_list, result>>
    /\ UNCHANGED <<knowledge, analysis, question_type, month_zhi, day_zhi,
                   ri_gan, paipan_result, report>>
    /\ UNCHANGED calendarVars
    /\ UNCHANGED <<store, history, now, conversation_history, record_id,
                   followup_count, followup_response>>

\* the casts of the runs: no changing line, one changing line, and the
\* lines 1 and 2 changing
SessionRands == {RandsOf({}), RandsOf({3}), RandsOf({1, 2})}

SessionTypes == {"shiye", "qita"}

NextSession ==
    \/ \E rands \in SessionRands, qt \in SessionTypes, outcome \in Outcomes :
          RunDivination(rands, qt, outcome)
    \/ \E outcome \in Outcomes : Followup(outcome)
    \/ EndFollowups
    \/ \E k \in 1..MaxRuns, outcome \in Outcomes, confirm \in BOOLEAN :
          ReinterpretRecord(k, outcome, confirm)
    \/ ReturnToMenu

SpecSession == InitStore /\ [][NextSession]_vars

(***************************************************************************)
(* Properties.                                                             *)
(***************************************************************************)
\* the five-element cycle: each element generates the next one and
\* overcomes the one after that
ShengCycle == <<"mu", "huo", "tu", "jin", "shui">>
CycleIndex(e) == CHOOSE i \in 1..5 : ShengCycle[i] = e
Generates(a, b) == CycleIndex(b) = (CycleIndex(a) % 5) + 1
Overcomes(a, b) == CycleIndex(b) = ((CycleIndex(a) + 1) % 5) + 1

Mutating(value) == value \in {6, 9}
Xor(a, b) == (a /\ ~b) \/ (~a /\ b)

\* C1: in every result of cast_hexagram, bit i of bian_gua_binary is bit i of
\* ben_gua_binary XOR "line i has value 6 or 9"; the two patterns are equal
\* when no line mutates and differ when one does.
CastXorMutating ==
    pc = "cast_done" =>
        LET ben == result.ben_gua_binary
            bian == result.bian_gua_binary
            mut == [i \in 1..NumYao |-> Mutating(result.yao_list[i].value)]
        IN /\ Len(ben) = NumYao
           /\ Len(bian) = NumYao
           /\ \A i \in 1..NumYao :
                 /\ ben[i] \in {"0", "1"}
                 /\ bian[i] \in {"0", "1"}
                 /\ (bian[i] = "1") <=> Xor(ben[i] = "1", mut[i])
           /\ (\A i \in 1..NumYao : ~mut[i]) => bian = ben
           /\ (\E i \in 1..NumYao : mut[i]) => bian # ben

\* a cast with an old yin, an old yang and a young line
CastXorMutatingWitness ==
    /\ pc = "cast_done"
    /\ result.yao_list[1].value = 6
    /\ result.yao_list[2].value = 9
    /\ result.yao_list[3].value = 7
    /\ result.bian_gua_binary = <<"1", "0", "1", "0", "0", "0">>

\* the line value the draw r stands for: 0 -> 6, 1..3 -> 7, 4..6 -> 8, 7 -> 9
DrawValue(r) ==
    CASE r = 0 -> 6
      [] r \in {1, 2, 3} -> 7
      [] r \in {4, 5, 6} -> 8
      [] r = 7 -> 9

\* C2: the line cast from the draw r has value 6 for r = 0, 7 for r in 1..3,
\* 8 for r in 4..6 and 9 for r = 7, which gives 1, 3, 3 and 1 of the 8 draws
\* to the values 6, 7, 8 and 9; a line is yang iff its value is 7 or 9 and
\* mutating iff it is 6 or 9.
CastSingleYaoDistribution ==
    /\ yao_list # <<>> =>
          /\ rand \in 0..7
          /\ yao_list[Len(yao_list)].value = DrawValue(rand)
    /\ \A i \in 1..Len(yao_list) :
          /\ yao_list[i].position = i
          /\ yao_list[i].is_yang <=> yao_list[i].value \in {7, 9}
          /\ yao_list[i].is_changing <=> yao_list[i].value \in {6, 9}
    /\ Cardinality({r \in 0..RandMax : RandomToYao(r) = 6}) = 1
    /\ Cardinality({r \in 0..RandMax : RandomToYao(r) = 7}) = 3
    /\ Cardinality({r \in 0..RandMax : RandomToYao(r) = 8}) = 3
    /\ Cardinality({r \in 0..RandMax : RandomToYao(r) = 9}) = 1

\* the sixth line was just cast from the draw 5 as a young yin
CastSingleYaoDistributionWitness ==
    /\ Len(yao_list) = NumYao
    /\ rand = 5
    /\ yao_list[NumYao].value = 8
    /\ yao_list[1].value = 9

\* the lines paipan has built, original and resulting hexagram
PaipanLines ==
    {paipan_result.ben_gua_yaos[i] : i \in 1..Len(paipan_result.ben_gua_yaos)}
    \cup {paipan_result.bian_gua_yaos[i] : i \in 1..Len(paipan_result.bian_gua_yaos)}

PaipanDone == pc \in {"analyze", "done"}

\* the element of the month branch
MonthElement == WS_MONTH_WUXING[month_zhi]

\* C3: for each of the 12 month branches and 5 line elements the strength
\* label is a table entry, never a default: Wang iff the elements are equal,
\* Xiang iff the month element generates the line element, Xiu iff the line
\* element generates the month element.
StrengthTotal ==
    PaipanDone =>
        /\ month_zhi \in DOMAIN WS_MONTH_WUXING
        /\ MonthElement \in DOMAIN WANGSHUAI_TABLE
        /\ \A y \in PaipanLines :
              /\ y.wuxing \in DOMAIN WANGSHUAI_TABLE[MonthElement]
              /\ y.wang_shuai \in {"Wang", "Xiang", "Xiu", "Qiu", "Si"}
              /\ y.wang_shuai = "Wang" <=> y.wuxing = MonthElement
              /\ y.wang_shuai = "Xiang" <=> Generates(MonthElement, y.wuxing)
              /\ y.wang_shuai = "Xiu" <=> Generates(y.wuxing, MonthElement)

\* a water month (branch hai) with a wood line, which the month generates
StrengthTotalWitness ==
    /\ PaipanDone
    /\ month_zhi = "hai"
    /\ \E y \in PaipanLines : y.wuxing = "mu" /\ y.wang_shuai = "Xiang"
    /\ \E y \in PaipanLines : y.wuxing = "shui" /\ y.wang_shuai = "Wang"
    /\ \E y \in PaipanLines : y.wuxing = "jin" /\ y.wang_shuai = "Xiu"

\* C4 as stated: a line is Qiu (confined) when the month element overcomes
\* its element and Si (dead) when its element overcomes the month element.
StrengthOvercomeAsStated ==
    PaipanDone =>
        \A y \in PaipanLines :
            /\ Overcomes(MonthElement, y.wuxing) => y.wang_shuai = "Qiu"
            /\ Overcomes(y.wuxing, MonthElement) => y.wang_shuai = "Si"

\* C4: a line is Si (dead) when the month element overcomes its element and
\* Qiu (confined) when its element overcomes the month element.
StrengthOvercome ==
    PaipanDone =>
        \A y \in PaipanLines :
            /\ Overcomes(MonthElement, y.wuxing) => y.wang_shuai = "Si"
            /\ Overcomes(y.wuxing, MonthElement) => y.wang_shuai = "Qiu"

\* a wood month (branch yin) with a metal line and an earth line
StrengthOvercomeWitness ==
    /\ PaipanDone
    /\ month_zhi = "yin"
    /\ \E y \in PaipanLines : y.wuxing = "jin" /\ y.wang_shuai = "Qiu"
    /\ \E y \in PaipanLines : y.wuxing = "tu" /\ y.wang_shuai = "Si"

\* C5: the kinship role is never "unknown": same element -> sibling, house
\* generates line -> child, line generates house -> parent, house overcomes
\* line -> spouse-wealth, line overcomes house -> official-ghost; for one
\* house element the five line elements get five different roles.
KinshipTotal ==
    PaipanDone =>
        LET g == paipan_result.gong_wuxing
        IN /\ \A y \in PaipanLines :
                 /\ y.liuqin # "weizhi"
                 /\ y.wuxing = g => y.liuqin = "xiongdi"
                 /\ Generates(g, y.wuxing) => y.liuqin = "zisun"
                 /\ Generates(y.wuxing, g) => y.liuqin = "fumu"
                 /\ Overcomes(g, y.wuxing) => y.liuqin = "qicai"
                 /\ Overcomes(y.wuxing, g) => y.liuqin = "guangui"
           /\ \A y1, y2 \in PaipanLines :
                 y1.wuxing # y2.wuxing => y1.liuqin # y2.liuqin
           /\ Cardinality({CalcLiuqin(e, g) : e \in WUXING}) = 5

\* a hexagram of the fire house whose lines carry all five roles
KinshipTotalWitness ==
    /\ PaipanDone
    /\ paipan_result.gong_wuxing = "huo"
    /\ {y.liuqin : y \in PaipanLines} =
          {"xiongdi", "zisun", "fumu", "qicai", "guangui"}
    /\ \E y \in PaipanLines : y.wuxing = "tu" /\ y.liuqin = "zisun"

AnalysisDone == pc = "done"

\* the element of the day branch
DayElement == DIZHI_WUXING[day_zhi]

BaseScore(label) ==
    CASE label = "Wang"  -> 100
      [] label = "Xiang" -> 80
      [] label = "Xiu"   -> 50
      [] label = "Qiu"   -> 30
      [] label = "Si"    -> 10

\* the sum S of C6 for line i, from the strength label and the elements of
\* the month, the day, the line and (for a mutating line) the resulting line
RawScore(i) ==
    LET y == paipan_result.ben_gua_yaos[i]
        le == y.wuxing
        be == paipan_result.bian_gua_yaos[i].wuxing
    IN BaseScore(y.wang_shuai)
       + (IF Generates(MONTH_WUXING[month_zhi], le) THEN 20 ELSE 0)
       + (IF Generates(DayElement, le) THEN 15 ELSE 0)
       - (IF Overcomes(MONTH_WUXING[month_zhi], le) THEN 25 ELSE 0)
       - (IF Overcomes(DayElement, le) THEN 15 ELSE 0)
       + (IF Mutating(y.yao_value)
          THEN (IF Generates(be, le) THEN 30
                ELSE IF Overcomes(be, le) THEN 0 - 40 ELSE 0)
          ELSE 0)

\* C6: the score of every line is min(150, max(0, S)), S being the base of
\* its strength label +20 / +15 when the month / day element generates the
\* line element, -25 / -15 when it overcomes it and, for a mutating line
\* only, +30 on returning generation or -40 on returning overcome; hence the
\* score lies in 0..150.
ScoreClamped ==
    AnalysisDone =>
        /\ Len(report.yaos) = NumYao
        /\ \A i \in 1..NumYao :
              /\ report.yaos[i].score = Min2(150, Max2(0, RawScore(i)))
              /\ report.yaos[i].score \in 0..150

\* one line whose sum is negative and scores 0, and a mutating line with
\* returning generation that scores exactly its sum
ScoreClampedWitness ==
    /\ AnalysisDone
    /\ \E i \in 1..NumYao : RawScore(i) < 0 /\ report.yaos[i].score = 0
    /\ \E j \in 1..NumYao :
          /\ Mutating(paipan_result.ben_gua_yaos[j].yao_value)
          /\ Generates(paipan_result.bian_gua_yaos[j].wuxing,
                       paipan_result.ben_gua_yaos[j].wuxing)
          /\ report.yaos[j].score = RawScore(j)
          /\ report.yaos[j].score > 0

\* the positions of the lines flagged as target spirit
YongShenPositions == {i \in 1..Len(report.yaos) : report.yaos[i].is_yong_shen}

MaxYongShenScore ==
    CHOOSE m \in {report.yaos[i].score : i \in YongShenPositions} :
        \A i \in YongShenPositions : report.yaos[i].score <= m

\* C7: when some line is flagged as target spirit, yong_shen_score is the
\* largest score among the flagged lines and yong_shen_pos the lowest
\* position among the flagged lines with that score.
YongShenSelection ==
    (AnalysisDone /\ YongShenPositions # {}) =>
        /\ report.yong_shen_score = MaxYongShenScore
        /\ report.yong_shen_pos \in YongShenPositions
        /\ report.yaos[report.yong_shen_pos].score = MaxYongShenScore
        /\ \A i \in YongShenPositions :
              report.yaos[i].score = MaxYongShenScore => report.yong_shen_pos <= i

\* two flagged lines of which the upper one scores more and is selected
YongShenSelectionWitness ==
    /\ AnalysisDone
    /\ \E i, j \in YongShenPositions :
          /\ i < j
          /\ report.yaos[i].score < report.yaos[j].score
          /\ report.yaos[j].score = MaxYongShenScore
          /\ report.yong_shen_pos = j
          /\ report.yong_shen_score = report.yaos[j].score

Grade(score) ==
    CASE score >= 100 -> "daji"
      [] score \in 80..99 -> "ji"
      [] score \in 60..79 -> "zhongping"
      [] score \in 40..59 -> "xiaoxiong"
      [] score \in 0..39 -> "xiong"

GradeRank(g) ==
    CASE g = "xiong" -> 0
      [] g = "xiaoxiong" -> 1
      [] g = "zhongping" -> 2
      [] g = "ji" -> 3
      [] g = "daji" -> 4

\* C8: ji_xiong depends on yong_shen_score alone: >= 100 daji, 80..99 ji,
\* 60..79 zhongping, 40..59 xiaoxiong, 0..39 xiong; every score in 0..150 has
\* a grade, and a higher score never has a worse grade.
VerdictGrade ==
    /\ AnalysisDone =>
          /\ report.yong_shen_score \in 0..150
          /\ report.ji_xiong = Grade(report.yong_shen_score)
    /\ \A sc \in 0..150 :
          JiXiong(sc) \in {"daji", "ji", "zhongping", "xiaoxiong", "xiong"}
    /\ \A sc \in 0..149 : GradeRank(JiXiong(sc)) <= GradeRank(JiXiong(sc + 1))

\* a report whose target spirit scores exactly 100 and is graded daji
VerdictGradeWitness ==
    /\ AnalysisDone
    /\ report.yong_shen_score = 100
    /\ report.ji_xiong = "daji"

\* the table entry analyze uses for the category of the report
RoleConfig ==
    IF question_type \in DOMAIN YONG_SHEN_MAP
    THEN YONG_SHEN_MAP[question_type] ELSE YONG_SHEN_MAP["qita"]

\* some mutating line of the original hexagram carries the kinship role
RoleMutates(role) ==
    \E i \in 1..Len(paipan_result.ben_gua_yaos) :
        /\ Mutating(paipan_result.ben_gua_yaos[i].yao_value)
        /\ paipan_result.ben_gua_yaos[i].liuqin = role

GradeTemplate(g) ==
    CASE g = "daji"      -> "yongshen_wangxiang_youli"
      [] g = "ji"        -> "yongshen_deli"
      [] g = "zhongping" -> "yongshen_zhongdeng"
      [] g = "xiaoxiong" -> "yongshen_xiuqiu"
      [] g = "xiong"     -> "yongshen_shuairuo"

\* C9: the conclusion is the template of the grade, followed by the
\* "additional support" clause iff a support-role line mutates and no
\* adverse-role line does, by the "beware obstruction" clause iff an
\* adverse-role line mutates and no support-role line does, and by nothing
\* otherwise.
VerdictQualifier ==
    AnalysisDone =>
        LET sup == RoleMutates(RoleConfig.yuan)
            adv == RoleMutates(RoleConfig.ji)
            c == report.conclusion
        IN /\ Len(c) \in {1, 2}
           /\ c[1] = GradeTemplate(report.ji_xiong)
           /\ (Len(c) = 2 /\ c[2] = "yuanshen_fadong") <=> (sup /\ ~adv)
           /\ (Len(c) = 2 /\ c[2] = "jishen_fadong") <=> (adv /\ ~sup)
           /\ Len(c) = 1 <=> ((sup /\ adv) \/ (~sup /\ ~adv))

\* a support-role line and an adverse-role line both mutate: no qualifier
VerdictQualifierWitness ==
    /\ AnalysisDone
    /\ RoleMutates(RoleConfig.yuan)
    /\ RoleMutates(RoleConfig.ji)
    /\ Len(report.conclusion) = 1

\* C10: the relation label follows the elements of the subject line and the
\* counterpart line: subject generates counterpart -> shi_sheng_ying,
\* counterpart generates subject -> ying_sheng_shi, subject overcomes
\* counterpart -> shi_ke_ying, counterpart overcomes subject -> ying_ke_shi,
\* equal elements -> shi_ying_bihe.
ShiYingLabel ==
    AnalysisDone =>
        LET sw == paipan_result.ben_gua_yaos[paipan_result.shi_yao].wuxing
            yw == paipan_result.ben_gua_yaos[paipan_result.ying_yao].wuxing
            r == report.shi_ying_relation
        IN /\ Generates(sw, yw) => r = "shi_sheng_ying"
           /\ Generates(yw, sw) => r = "ying_sheng_shi"
           /\ Overcomes(sw, yw) => r = "shi_ke_ying"
           /\ Overcomes(yw, sw) => r = "ying_ke_shi"
           /\ sw = yw => r = "shi_ying_bihe"
           /\ report.shi_pos = paipan_result.shi_yao
           /\ report.ying_pos = paipan_result.ying_yao

\* a water subject line over a fire counterpart line
ShiYingLabelWitness ==
    /\ AnalysisDone
    /\ paipan_result.ben_gua_yaos[paipan_result.shi_yao].wuxing = "shui"
    /\ paipan_result.ben_gua_yaos[paipan_result.ying_yao].wuxing = "huo"
    /\ report.shi_ying_relation = "shi_ke_ying"

\* the positions of the cast whose value is 6 or 9
MutatingPositions == {i \in 1..NumYao : Mutating(result.yao_list[i].value)}

\* the k-th smallest element of a set of positions
RECURSIVE KthPosition(_, _)
KthPosition(S, k) ==
    LET least == CHOOSE x \in S : \A y \in S : x <= y
    IN IF k = 1 THEN least ELSE KthPosition(S \ {least}, k - 1)

\* C11: the mutating-line analysis holds one judgment per mutating line, in
\* ascending position order, each naming the position, kinship role and six
\* spirit of its line; without a mutating line it holds the one fixed "all
\* lines static" judgment.  The list is never empty: its length is
\* max(1, number of mutating lines).
DongYaoJudgments ==
    AnalysisDone =>
        LET J == report.dong_yao_analysis
            M == MutatingPositions
        IN /\ Len(J) = Max2(1, Cardinality(M))
           /\ J # <<>>
           /\ M = {} => J = <<StaticJudgment>>
           /\ M # {} =>
                 \A k \in 1..Len(J) :
                    LET pos == KthPosition(M, k)
                        line == paipan_result.ben_gua_yaos[pos]
                    IN /\ J[k].text = "dong"
                       /\ J[k].position = pos
                       /\ J[k].liuqin = line.liuqin
                       /\ J[k].liushen = line.liushen
                       /\ J[k].liushen \in {LIUSHEN[i] : i \in 1..6}

\* lines 2, 4 and 6 mutate and the second line is the target spirit: three
\* judgments, the first for the target-spirit line itself
DongYaoJudgmentsWitness ==
    /\ AnalysisDone
    /\ MutatingPositions = {2, 4, 6}
    /\ report.yaos[2].is_yong_shen
    /\ Len(report.dong_yao_analysis) = 3
    /\ report.dong_yao_analysis[1].position = 2
    /\ report.dong_yao_analysis[3].position = 6

\* the kinship roles carried by the lines of the original hexagram
RolesPresent ==
    {paipan_result.ben_gua_yaos[i].liuqin : i \in 1..Len(paipan_result.ben_gua_yaos)}

KinshipRoles == {"xiongdi", "zisun", "fumu", "qicai", "guangui"}

\* C12: when the target role of the category is a kinship role that no line
\* of the cast carries, the report is still complete: six analysed lines,
\* target position 0, target score 0, grade xiong with its template, and the
\* subject / counterpart relation and the mutating-line judgments filled in.
DegenerateTarget ==
    (/\ AnalysisDone
     /\ RoleConfig.yong \in KinshipRoles
     /\ RoleConfig.yong \notin RolesPresent) =>
        /\ Len(report.yaos) = NumYao
        /\ \A i \in 1..NumYao : ~report.yaos[i].is_yong_shen
        /\ report.yong_shen_pos = 0
        /\ report.yong_shen_score = 0
        /\ report.ji_xiong = "xiong"
        /\ report.conclusion # <<>>
        /\ report.conclusion[1] = GradeTemplate("xiong")
        /\ report.shi_pos = paipan_result.shi_yao
        /\ report.ying_pos = paipan_result.ying_yao
        /\ report.shi_ying_relation # ""
        /\ Len(report.dong_yao_analysis) = Max2(1, Cardinality(MutatingPositions))

\* a health question on a cast without a child line, two lines mutating
DegenerateTargetWitness ==
    /\ AnalysisDone
    /\ question_type = "jiankang"
    /\ "zisun" \notin RolesPresent
    /\ Cardinality(MutatingPositions) = 2
    /\ report.yong_shen_pos = 0
    /\ report.ji_xiong = "xiong"
    /\ Len(report.dong_yao_analysis) = 2

\* the five named categories: career, wealth, relationship, health, study
NamedCategories == {"shiye", "caiyun", "ganqing", "jiankang", "xueye"}

\* the role flags of the report are those of the catch-all entry: the target
\* spirit is the subject line, the adverse role is official-ghost, and no
\* line is support or counter spirit
FlagsAsOther ==
    \A i \in 1..Len(report.yaos) :
        LET y == report.yaos[i]
            line == paipan_result.ben_gua_yaos[i]
        IN /\ y.is_yong_shen <=> (i = paipan_result.shi_yao)
           /\ y.is_ji_shen <=> (line.liuqin = "guangui")
           /\ ~y.is_yuan_shen
           /\ ~y.is_chou_shen

\* the role flags of the report follow the four kinship roles given
FlagsByRoles(yong, yuan, ji, chou) ==
    \A i \in 1..Len(report.yaos) :
        LET y == report.yaos[i]
            line == paipan_result.ben_gua_yaos[i]
        IN /\ y.is_yong_shen <=> (line.liuqin = yong)
           /\ y.is_yuan_shen <=> (line.liuqin = yuan)
           /\ y.is_ji_shen <=> (line.liuqin = ji)
           /\ y.is_chou_shen <=> (line.liuqin = chou)

\* C13 as stated: the category table has six entries, and every category
\* that is not one of the five named ones is flagged as the catch-all
\* "other"; health has target child, support sibling, adverse official-ghost.
CategoryFallbackAsStated ==
    AnalysisDone =>
        /\ question_type \notin NamedCategories => FlagsAsOther
        /\ question_type = "jiankang" =>
              FlagsByRoles("zisun", "xiongdi", "guangui", "qicai")
        /\ Cardinality(DOMAIN YONG_SHEN_MAP) = 6

\* C13: the category table has seven entries, the five named categories,
\* travel and the catch-all "other".  Every category that is no key of the
\* table is flagged as "other"; travel also takes the subject line as target
\* spirit and official-ghost as adverse role, but flags parent lines as
\* support and sibling lines as counter spirit; health has target child,
\* support sibling, adverse official-ghost.
CategoryFallback ==
    /\ DOMAIN YONG_SHEN_MAP = NamedCategories \cup {"chuxing", "qita"}
    /\ Cardinality(DOMAIN YONG_SHEN_MAP) = 7
    /\ AnalysisDone =>
          /\ question_type \notin DOMAIN YONG_SHEN_MAP => FlagsAsOther
          /\ question_type = "qita" => FlagsAsOther
          /\ question_type = "chuxing" =>
                \A i \in 1..Len(report.yaos) :
                    LET y == report.yaos[i]
                        line == paipan_result.ben_gua_yaos[i]
                    IN /\ y.is_yong_shen <=> (i = paipan_result.shi_yao)
                       /\ y.is_yuan_shen <=> (line.liuqin = "fumu")
                       /\ y.is_ji_shen <=> (line.liuqin = "guangui")
                       /\ y.is_chou_shen <=> (line.liuqin = "xiongdi")
          /\ question_type = "jiankang" =>
                FlagsByRoles("zisun", "xiongdi", "guangui", "qicai")

\* a category that is no key of the table, on a cast with an official-ghost
\* line that is flagged adverse and a subject line flagged target spirit
CategoryFallbackWitness ==
    /\ AnalysisDone
    /\ question_type = "hunyin"
    /\ report.yaos[paipan_result.shi_yao].is_yong_shen
    /\ \E i \in 1..NumYao :
          /\ paipan_result.ben_gua_yaos[i].liuqin = "guangui"
          /\ report.yaos[i].is_ji_shen
    /\ \E i \in 1..NumYao : paipan_result.ben_gua_yaos[i].liuqin = "fumu"

CalendarDone == pc = "calendar_done"

\* the civil date after (year, month, day)
NextDate(year, month, day) ==
    IF day < DaysInMonth(year, month) THEN <<year, month, day + 1>>
    ELSE IF month < 12 THEN <<year, month + 1, 1>>
    ELSE <<year + 1, 1, 1>>

StemIndex(gan) == IndexOf(TIANGAN, gan)
BranchIndex(zhi) == IndexOf(DIZHI, zhi)

\* C14: with d the signed number of days from 2000-01-01 to the date, the
\* day stem index is congruent to d modulo 10 and the day branch index to
\* d + 4 modulo 12, both in range (0..9, 0..11) also for negative d; the pair
\* of 2000-01-01 is jia / chen (indices 0 and 4); d grows by 1 with the
\* civil date and the following day has both indices advanced by 1
\* cyclically.
DayPair ==
    CalendarDone =>
        LET d == DaysDiff(dt.year, dt.month, dt.day)
            gi == StemIndex(ganzhi_time.day_gan)
            zi == BranchIndex(ganzhi_time.day_zhi)
            n == NextDate(dt.year, dt.month, dt.day)
            next == CalcDayGanzhi(n[1], n[2], n[3])
        IN /\ gi \in 0..9
           /\ zi \in 0..11
           /\ \E q \in -400..400 : d = 10 * q + gi
           /\ \E q \in -400..400 : d + 4 = 12 * q + zi
           /\ (dt.year = 2000 /\ dt.month = 1 /\ dt.day = 1) =>
                 d = 0 /\ ganzhi_time.day_gan = "jia" /\ ganzhi_time.day_zhi = "chen"
           /\ DaysDiff(n[1], n[2], n[3]) = d + 1
           /\ StemIndex(next[1]) = (IF gi = 9 THEN 0 ELSE gi + 1)
           /\ BranchIndex(next[2]) = (IF zi = 11 THEN 0 ELSE zi + 1)

\* the day before the base date: d = -1, stem gui (9) and branch mao (3)
DayPairWitness ==
    /\ CalendarDone
    /\ dt.year = 1999 /\ dt.month = 12 /\ dt.day = 31
    /\ DaysDiff(dt.year, dt.month, dt.day) = 0 - 1
    /\ ganzhi_time.day_gan = "gui"
    /\ ganzhi_time.day_zhi = "mao"

\* the five-tigers table: stem index of the first month by year stem mod 5
FiveTigers == <<2, 4, 6, 8, 0>>

\* C15: with m = 1..12 the solar month of the date and y the index of the
\* year stem, the month branch index is (m + 1) mod 12 (m = 1 is yin) and the
\* month stem index (base[y mod 5] + m - 1) mod 10, base = [2, 4, 6, 8, 0];
\* a date of the same year in solar month m + 1 has the stem and the branch
\* advanced by 1 cyclically.
MonthPair ==
    CalendarDone =>
        LET m == GetLunarMonth(dt.month, dt.day)
            y == StemIndex(ganzhi_time.year_gan)
            mg == StemIndex(ganzhi_time.month_gan)
            mz == BranchIndex(ganzhi_time.month_zhi)
        IN /\ m \in 1..12
           /\ mz = (m + 1) % 12
           /\ mg = (FiveTigers[(y % 5) + 1] + m - 1) % 10
           /\ m = 1 => ganzhi_time.month_zhi = "yin"
           /\ m < 12 =>
                 /\ \E mo \in 1..12, da \in {1, 10, 20} : GetLunarMonth(mo, da) = m + 1
                 /\ \A mo \in 1..12, da \in {1, 10, 20} :
                       GetLunarMonth(mo, da) = m + 1 =>
                          LET next == CalcMonthGanzhi(dt.year, mo, da)
                          IN /\ StemIndex(next[1]) = (mg + 1) % 10
                             /\ BranchIndex(next[2]) = (mz + 1) % 12

\* a date of 1999 (year stem ji3) in solar month 1: the month pair is
\* bing / yin
MonthPairWitness ==
    /\ CalendarDone
    /\ dt.year = 1999
    /\ ganzhi_time.year_gan = "ji3"
    /\ GetLunarMonth(dt.month, dt.day) = 1
    /\ ganzhi_time.month_gan = "bing"
    /\ ganzhi_time.month_zhi = "yin"

\* the kinship role of a line element against a house element
Kinship(line, house) ==
    CASE line = house -> "xiongdi"
      [] Generates(house, line) -> "zisun"
      [] Generates(line, house) -> "fumu"
      [] Overcomes(house, line) -> "qicai"
      [] Overcomes(line, house) -> "guangui"

\* C16: for every cast with a mutating line paipan returns six resulting
\* lines at positions 1..6, none of them mutating (value 7 or 8), each with
\* the polarity of the original line flipped exactly at the mutating
\* positions, which is the caster's resulting pattern bit for bit; the
\* kinship role of a resulting line is taken against the house element of
\* the original hexagram, and its six spirit and subject / counterpart flags
\* are those of the original line at the position.
ResultingLines ==
    (PaipanDone /\ MutatingPositions # {}) =>
        LET ben == paipan_result.ben_gua_yaos
            bian == paipan_result.bian_gua_yaos
        IN /\ Len(bian) = NumYao
           /\ \A i \in 1..NumYao :
                 /\ bian[i].position = i
                 /\ ~bian[i].is_changing
                 /\ bian[i].yao_value \in {7, 8}
                 /\ bian[i].is_yang <=> (bian[i].yao_value = 7)
                 /\ bian[i].is_yang <=> Xor(ben[i].is_yang, i \in MutatingPositions)
                 /\ bian[i].is_yang <=> (result.bian_gua_binary[i] = "1")
                 /\ bian[i].liuqin = Kinship(bian[i].wuxing, analysis.ben_gua.gong_wuxing)
                 /\ bian[i].liushen = ben[i].liushen
                 /\ bian[i].shi_yao = ben[i].shi_yao
                 /\ bian[i].ying_yao = ben[i].ying_yao

\* lines 3 (old yang) and 4 (old yin) mutate, and the resulting hexagram
\* belongs to another house than the original one
ResultingLinesWitness ==
    /\ PaipanDone
    /\ MutatingPositions = {3, 4}
    /\ analysis.bian_gua # <<>>
    /\ analysis.bian_gua[1].gong_wuxing # analysis.ben_gua.gong_wuxing
    /\ paipan_result.ben_gua_yaos[3].yao_value = 9
    /\ ~paipan_result.bian_gua_yaos[3].is_yang
    /\ paipan_result.bian_gua_yaos[4].is_yang
    /\ paipan_result.bian_gua_yaos[3].shi_yao

LookupDone == pc \in {"failed", "paipan", "analyze", "done"}

\* C17: looking up a 6-bit pattern without catalog record raises an error
\* that names the pattern.  analyze looks up the original pattern always
\* and the resulting pattern whenever a line mutates; when either lookup
\* fails there is no AnalysisResult and run_divination builds no line set
\* and no report.  When analyze returns, the resulting identity is present
\* iff at least one line mutates.
CatalogLookup ==
    LookupDone =>
        LET ben_missing == knowledge.ben = NoInfo
            bian_missing == MutatingPositions # {} /\ knowledge.bian = NoInfo
        IN /\ ben_missing =>
                 /\ pc = "failed"
                 /\ error.kind = "ValueError"
                 /\ error.pattern = result.ben_gua_binary
           /\ (~ben_missing /\ bian_missing) =>
                 /\ pc = "failed"
                 /\ error.kind = "ValueError"
                 /\ error.pattern = result.bian_gua_binary
           /\ pc = "failed" =>
                 /\ analysis = NoAnalysis
                 /\ paipan_result = NoPaipan
                 /\ report = NoReport
           /\ (~ben_missing /\ ~bian_missing) =>
                 /\ pc # "failed"
                 /\ error = NoError
                 /\ analysis.ben_gua = knowledge.ben
                 /\ analysis.bian_gua # <<>> <=> MutatingPositions # {}
                 /\ analysis.has_change <=> MutatingPositions # {}

\* a cast with two mutating lines whose resulting pattern has no record: the
\* error names the resulting pattern
CatalogLookupWitness ==
    /\ pc = "failed"
    /\ MutatingPositions = {2, 5}
    /\ knowledge.ben # NoInfo
    /\ knowledge.bian = NoInfo
    /\ error.pattern = result.bian_gua_binary
    /\ error.pattern # result.ben_gua_binary
    /\ report = NoReport

\* a key that is no key of its table
UnknownMonth == month_zhi # "" /\ month_zhi \notin BranchSet
UnknownDay == day_zhi \notin BranchSet
UnknownStem == ri_gan \notin StemSet
UnknownHouse == knowledge.ben # NoInfo /\ knowledge.ben.gong_wuxing \notin WUXING

\* C18 as stated: a lookup with a key outside its table is fatal: with an
\* unknown month branch, day stem or house name no line set is returned, and
\* with any unknown key no report.
LookupFatalAsStated ==
    /\ (UnknownMonth \/ UnknownStem \/ UnknownHouse) =>
          paipan_result = NoPaipan /\ report = NoReport
    /\ UnknownDay => report = NoReport

\* the strength label of a line element in a month of the given element
StrengthLabel(month_element, line_element) ==
    CASE line_element = month_element -> "Wang"
      [] Generates(month_element, line_element) -> "Xiang"
      [] Generates(line_element, month_element) -> "Xiu"
      [] Overcomes(line_element, month_element) -> "Qiu"
      [] Overcomes(month_element, line_element) -> "Si"

\* C18: a lookup with a key outside its table is not fatal, a fixed default
\* takes the place of the missing entry: an unknown (non-empty) month branch
\* counts as an earth month in the strength label and in the month flags,
\* an unknown day branch as an earth day, an unknown house name as a metal
\* house, an unknown day stem gets the spirit list of a jia / yi day, an
\* unknown line element the strength label Xiu and an hour outside 0..23 the
\* branch zi.  paipan and analyze return a complete line set and report and
\* no error is raised.
LookupDefaults ==
    /\ PaipanDone =>
          /\ error = NoError
          /\ Len(paipan_result.ben_gua_yaos) = NumYao
          /\ \A i \in 1..NumYao :
                LET y == paipan_result.ben_gua_yaos[i]
                IN /\ UnknownMonth => y.wang_shuai = StrengthLabel("tu", y.wuxing)
                   /\ UnknownHouse => y.liuqin = Kinship(y.wuxing, "jin")
                   /\ UnknownStem => y.liushen = LIUSHEN[i]
          /\ UnknownHouse => paipan_result.gong_wuxing = "jin"
    /\ AnalysisDone =>
          /\ Len(report.yaos) = NumYao
          /\ report.ji_xiong \in {"daji", "ji", "zhongping", "xiaoxiong", "xiong"}
          /\ \A i \in 1..NumYao :
                LET y == report.yaos[i]
                IN /\ UnknownMonth =>
                         /\ y.yue_sheng <=> Generates("tu", y.wuxing)
                         /\ y.yue_ke <=> Overcomes("tu", y.wuxing)
                   /\ UnknownDay =>
                         /\ y.ri_sheng <=> Generates("tu", y.wuxing)
                         /\ y.ri_ke <=> Overcomes("tu", y.wuxing)
    /\ CalcWangshuai("unknown", "yin") = "Xiu"
    /\ \A h \in {0 - 1, 24, 25} : CalcHourGanzhi(2000, 1, 1, h)[2] = "zi"

\* a report built with an unknown month branch, day branch, day stem and
\* house name, on a cast with a metal line
LookupDefaultsWitness ==
    /\ AnalysisDone
    /\ UnknownMonth /\ UnknownDay /\ UnknownStem /\ UnknownHouse
    /\ paipan_result.gong_wuxing = "jin"
    /\ \E i \in 1..NumYao :
          /\ report.yaos[i].wuxing = "jin"
          /\ report.yaos[i].wang_shuai = "Xiang"
          /\ report.yaos[i].yue_sheng
          /\ report.yaos[i].ri_sheng
          /\ report.yaos[i].liuqin = "xiongdi"
    /\ report.yaos[1].liushen = "qinglong"

\* the score _calc_yao_score gives line i from its strength label and its
\* month / day adjustments alone: the clamped sum without the mutation term
StaticScore(i) ==
    LET y == paipan_result.ben_gua_yaos[i]
        le == y.wuxing
    IN Max2(0, Min2(150,
          BaseScore(y.wang_shuai)
          + (IF Generates(MONTH_WUXING[month_zhi], le) THEN 20 ELSE 0)
          + (IF Generates(DayElement, le) THEN 15 ELSE 0)
          - (IF Overcomes(MONTH_WUXING[month_zhi], le) THEN 25 ELSE 0)
          - (IF Overcomes(DayElement, le) THEN 15 ELSE 0)))

\* line p is the only mutating line and its resulting element generates its
\* original element
SingleReturning(p) ==
    /\ AnalysisDone
    /\ MutatingPositions = {p}
    /\ Generates(paipan_result.bian_gua_yaos[p].wuxing,
                 paipan_result.ben_gua_yaos[p].wuxing)

\* C19 as stated: with exactly one mutating line whose resulting element
\* generates its original element, the line's final score is exactly 30
\* higher than the score it gets from its strength label and month / day
\* adjustments alone, and its judgment carries the returning-generation
\* annotation
ReturningGenerationAsStated ==
    \A p \in 1..NumYao :
        SingleReturning(p) =>
            /\ report.yaos[p].score = StaticScore(p) + 30
            /\ report.dong_yao_analysis[1].hui_tou = "huitou_sheng"

\* C19: with exactly one mutating line whose resulting element generates
\* its original element, the line's final score is exactly 30 higher than
\* the sum of the base of its strength label and its month / day
\* adjustments, taken before the clamp to 0..150; it is exactly 30 higher
\* than the clamped score of label and adjustments alone when that sum is
\* not negative, and -sum less than that otherwise.  The analysis has one
\* judgment, for that line, and it carries the returning-generation
\* annotation with the resulting element.
ReturningGeneration ==
    \A p \in 1..NumYao :
        SingleReturning(p) =>
            LET y == report.yaos[p]
                sum == RawScore(p) - 30
            IN /\ y.is_dong /\ y.hui_tou_sheng /\ ~y.hui_tou_ke
               /\ sum \in (0 - 30)..115
               /\ y.score = sum + 30
               /\ sum >= 0 => y.score = StaticScore(p) + 30
               /\ sum < 0 => StaticScore(p) = 0 /\ y.score = 30 + sum
               /\ Len(report.dong_yao_analysis) = 1
               /\ report.dong_yao_analysis[1].position = p
               /\ report.dong_yao_analysis[1].bian_wuxing =
                     paipan_result.bian_gua_yaos[p].wuxing
               /\ report.dong_yao_analysis[1].hui_tou = "huitou_sheng"

\* a single mutating Si line overcome by the month and by the day, with
\* returning generation: the sum is -30, the final score 0 and the judgment
\* annotated
ReturningGenerationWitness ==
    \E p \in 1..NumYao :
        /\ SingleReturning(p)
        /\ report.yaos[p].wang_shuai = "Si"
        /\ report.yaos[p].yue_ke /\ report.yaos[p].ri_ke
        /\ report.yaos[p].score = 0
        /\ report.dong_yao_analysis[1].hui_tou = "huitou_sheng"

\* the set of the elements of a sequence
Range(seq) == {seq[i] : i \in 1..Len(seq)}

\* a step of save_record: the clock has ticked
SaveStep == now' = now + 1

\* the list of the store and every list get_history returns run from the
\* newest record to the oldest
NewestFirst(records) ==
    \A i \in 1..(Len(records) - 1) : records[i].created_at > records[i + 1].created_at

Listed == pc = "listed"

\* C20 as stated: the history store is append-only under save_record: every
\* record an earlier save_record stored is still present with unchanged
\* content after any further save_record, and get_history lists records
\* newest first
AppendOnlyAsStated ==
    /\ [][SaveStep => Range(store.records) \subseteq Range(store'.records)]_vars
    /\ [](Listed => NewestFirst(history.records))

\* the positions of the stored records get_history(limit, qt) selects from
Matching(qt) ==
    {i \in 1..Len(store.records) : qt = "" \/ store.records[i].question_type = qt}

\* C20: under save_record the history store keeps the newest max_records =
\* 1000 records: a save_record puts the new record in front of the stored
\* ones, which keep their order and content, and drops the oldest record
\* when 1000 are stored already, so a stored record is still present with
\* unchanged content as long as fewer than 1000 records were saved after
\* it.  The stored list runs from newest to oldest, and get_history returns
\* the newest `limit` records (of the given category, when one is given),
\* newest first.
NewestKept ==
    /\ [][SaveStep =>
            LET old == store.records
                new == store'.records
            IN /\ Len(new) = Min2(Len(old) + 1, max_records)
               /\ new[1].created_at = now'
               /\ new[1] \notin Range(old)
               /\ \A i \in 2..Len(new) : new[i] = old[i - 1]
               /\ \A i \in 1..Len(old) :
                     old[i] \in Range(new) <=> i < max_records]_vars
    /\ [](/\ Len(store.records) <= max_records
          /\ NewestFirst(store.records)
          /\ Listed =>
                LET H == history.records
                    M == Matching(history.question_type)
                IN /\ Len(H) = Min2(history.limit, Cardinality(M))
                   /\ \A k \in 1..Len(H) : H[k] = store.records[KthPosition(M, k)]
                   /\ NewestFirst(H))

\* the store held 998 records, three more were saved and the oldest one is
\* gone; get_history(10, "shiye") lists ten records, the newest one saved in
\* this run
NewestKeptWitness ==
    /\ Listed
    /\ Len(store.records) = max_records
    /\ store.statistics.total_count > max_records
    /\ store.records[max_records].created_at > 3 - max_records
    /\ history.limit = DefaultLimit
    /\ history.question_type = "shiye"
    /\ Len(history.records) = DefaultLimit
    /\ history.records[1].created_at > 0
    /\ history.records[1].created_at < now

\* the major boundaries (jie) of the table, numbered 1..12 in table order:
\* boundary k is the entry 2k - 1 and lies in the civil month k
MajorBoundary(k) == JIEQI[2 * k - 1]

IsBoundaryDate(month, day) ==
    \E k \in 1..12 : MajorBoundary(k).month = month /\ MajorBoundary(k).day = day

\* the number of the most recent major boundary on or before (month, day);
\* before the first boundary of the civil year it is the last one, 12
RecentBoundary(month, day) ==
    LET on_or_before ==
            {k \in 1..12 : \/ MajorBoundary(k).month < month
                           \/ (MajorBoundary(k).month = month /\ MajorBoundary(k).day <= day)}
    IN IF on_or_before = {} THEN 12
       ELSE CHOOSE k \in on_or_before : \A j \in on_or_before : j <= k

\* the loop of _get_lunar_month returns at the first major entry whose month
\* is the date's month or a later one; without such an entry it runs out
LoopRunsOut(month) ==
    \A i \in 1..Len(JIEQI) : JIEQI[i].is_jie => JIEQI[i].month < month

\* C21: for every valid civil (month, day) _get_lunar_month returns a value
\* in 1..12, the number of the most recent major boundary on or before the
\* date; the following day has the same value unless it is one of the 12
\* major boundary dates, where the value advances by exactly 1 (12 wrapping
\* to 1); the loop never runs out, so the fallback is not reached.
SolarMonth ==
    CalendarDone =>
        LET m == GetLunarMonth(dt.month, dt.day)
            n == NextDate(dt.year, dt.month, dt.day)
            m2 == GetLunarMonth(n[2], n[3])
        IN /\ m \in 1..12
           /\ m = RecentBoundary(dt.month, dt.day)
           /\ ganzhi_time.month_zhi = DIZHI[((m + 1) % 12) + 1]
           /\ IsBoundaryDate(n[2], n[3]) => m2 = (m % 12) + 1
           /\ ~IsBoundaryDate(n[2], n[3]) => m2 = m
           /\ ~LoopRunsOut(dt.month)
           /\ Cardinality({k \in 1..12 : MajorBoundary(k).is_jie
                                          /\ MajorBoundary(k).month = k}) = 12

\* the day before the first boundary of the civil year: the value is 12 and
\* wraps to 1 on the following day
SolarMonthWitness ==
    /\ CalendarDone
    /\ dt.month = 1 /\ dt.day = 5
    /\ GetLunarMonth(dt.month, dt.day) = 12
    /\ IsBoundaryDate(1, 6)
    /\ GetLunarMonth(1, 6) = 1

\* the date lies from (m1, d1) on and before (m2, d2), both of the same
\* civil year
Between(month, day, m1, d1, m2, d2) ==
    /\ (month > m1 \/ (month = m1 /\ day >= d1))
    /\ (month < m2 \/ (month = m2 /\ day < d2))

\* C22: the first month (branch yin) begins at the boundary lichun (Feb 4):
\* every date from Feb 4 up to the day before jingzhe (Mar 6) gets solar
\* month 1 and the month branch yin, the month stem being the five-tigers
\* base of the year stem (bing / yin in a jia or ji3 year); every date from
\* xiaohan (Jan 6) to Feb 3 gets the month branch chou.
FirstMonthAtLichun ==
    CalendarDone =>
        LET y == StemIndex(ganzhi_time.year_gan)
        IN /\ Between(dt.month, dt.day, 2, 4, 3, 6) =>
                 /\ GetLunarMonth(dt.month, dt.day) = 1
                 /\ ganzhi_time.month_zhi = "yin"
                 /\ StemIndex(ganzhi_time.month_gan) = FiveTigers[(y % 5) + 1]
                 /\ ganzhi_time.year_gan \in {"jia", "ji3"} =>
                       ganzhi_time.month_gan = "bing"
           /\ Between(dt.month, dt.day, 1, 6, 2, 4) => ganzhi_time.month_zhi = "chou"

\* C23: the month pair is constant within one solar month: a date and the
\* following day get the same month stem and branch unless the following
\* day is a major boundary, so any two dates between the same pair of
\* consecutive major boundaries agree; this includes the solar month that
\* spans the civil new year (Dec 7 of a year to Jan 5 of the next).
MonthPairConstant ==
    CalendarDone =>
        LET n == NextDate(dt.year, dt.month, dt.day)
            next == Calculate([year |-> n[1], month |-> n[2], day |-> n[3],
                               hour |-> dt.hour])
        IN ~IsBoundaryDate(n[2], n[3]) =>
              /\ next.month_zhi = ganzhi_time.month_zhi
              /\ next.month_gan = ganzhi_time.month_gan

\* C24: for every line built by paipan with a non-empty month branch and
\* analysed with the same month branch, the month-generates flag is set
\* exactly when the strength label is Xiang (supported) and the
\* month-overcomes flag exactly when it is Si (dead); hence no score
\* exceeds 145, a Si line never scores above 30, a Qiu line never above 75
\* (and a Xiu line never above 95), and the grade daji is reached only with
\* a Wang or Xiang target-spirit line.
MonthFlagsFollowLabel ==
    (AnalysisDone /\ month_zhi # "") =>
        /\ \A i \in 1..NumYao :
              LET y == report.yaos[i]
              IN /\ y.wang_shuai = paipan_result.ben_gua_yaos[i].wang_shuai
                 /\ y.yue_sheng <=> y.wang_shuai = "Xiang"
                 /\ y.yue_ke <=> y.wang_shuai = "Si"
                 /\ y.score <= 145
                 /\ y.wang_shuai = "Si" => y.score <= 30
                 /\ y.wang_shuai = "Qiu" => y.score <= 75
                 /\ y.wang_shuai = "Xiu" => y.score <= 95
        /\ report.ji_xiong = "daji" =>
              \E i \in 1..NumYao :
                 /\ report.yaos[i].is_yong_shen
                 /\ report.yaos[i].wang_shuai \in {"Wang", "Xiang"}
                 /\ report.yaos[i].score = report.yong_shen_score

\* a report graded daji whose target-spirit line is at the top score 145,
\* with a Si line overcome by the month and a Xiang line generated by it
MonthFlagsFollowLabelWitness ==
    /\ AnalysisDone
    /\ month_zhi # ""
    /\ report.ji_xiong = "daji"
    /\ report.yong_shen_score = 145
    /\ \E i \in 1..NumYao :
          report.yaos[i].wang_shuai = "Si" /\ report.yaos[i].yue_ke
    /\ \E i \in 1..NumYao :
          report.yaos[i].wang_shuai = "Xiang" /\ report.yaos[i].yue_sheng

\* the number of role flags line i of the report carries
FlagCount(i) ==
    LET y == report.yaos[i]
    IN (IF y.is_yong_shen THEN 1 ELSE 0) + (IF y.is_yuan_shen THEN 1 ELSE 0)
       + (IF y.is_ji_shen THEN 1 ELSE 0) + (IF y.is_chou_shen THEN 1 ELSE 0)

\* some line mutates and every mutating line is flagged as target spirit
OnlyTargetsMutate ==
    /\ MutatingPositions # {}
    /\ \A i \in MutatingPositions : report.yaos[i].is_yong_shen

\* C25 as stated: for every category and every cast the four role flags of
\* a line are mutually exclusive, so mutating target-spirit lines alone
\* never bring a qualifier into the conclusion
RolesExclusiveAsStated ==
    AnalysisDone =>
        /\ \A i \in 1..NumYao : FlagCount(i) <= 1
        /\ OnlyTargetsMutate => Len(report.conclusion) = 1

\* C25: for the five categories whose target is a kinship role the four
\* role flags of a line are mutually exclusive and mutating target-spirit
\* lines alone bring no qualifier.  For the categories whose target is the
\* subject line (travel, other, and every category outside the table) only
\* the support, adverse and counter flags are mutually exclusive: the
\* subject line is flagged target and also carries the flag of its own
\* kinship role, and a mutating subject line of the adverse role, alone,
\* brings the "beware obstruction" qualifier (of the support role, the
\* "additional support" qualifier).
RolesExclusive ==
    AnalysisDone =>
        LET cfg == RoleConfig
        IN /\ \A i \in 1..NumYao :
                 LET y == report.yaos[i]
                 IN /\ FlagCount(i) - (IF y.is_yong_shen THEN 1 ELSE 0) <= 1
                    /\ cfg.yong # "shiyao" => FlagCount(i) <= 1
                    /\ cfg.yong = "shiyao" =>
                          /\ y.is_yong_shen <=> y.is_shi
                          /\ (y.is_yong_shen /\ y.is_ji_shen) <=>
                                (y.is_shi /\ y.liuqin = cfg.ji)
                          /\ (y.is_yong_shen /\ y.is_yuan_shen) <=>
                                (y.is_shi /\ y.liuqin = cfg.yuan)
                          /\ (y.is_yong_shen /\ y.is_chou_shen) <=>
                                (y.is_shi /\ y.liuqin = cfg.chou)
           /\ (cfg.yong # "shiyao" /\ OnlyTargetsMutate) => Len(report.conclusion) = 1
           /\ (cfg.yong = "shiyao" /\ OnlyTargetsMutate) =>
                 LET shi == report.yaos[paipan_result.shi_yao]
                 IN /\ shi.liuqin = cfg.ji => report.conclusion[2] = "jishen_fadong"
                    /\ shi.liuqin = cfg.yuan => report.conclusion[2] = "yuanshen_fadong"
                    /\ shi.liuqin \notin {cfg.ji, cfg.yuan} => Len(report.conclusion) = 1

\* category "other": the subject line is an official-ghost line and the only
\* mutating line; it is flagged target and adverse and the conclusion gets
\* the "beware obstruction" qualifier
RolesExclusiveWitness ==
    /\ AnalysisDone
    /\ question_type = "qita"
    /\ MutatingPositions = {paipan_result.shi_yao}
    /\ report.yaos[paipan_result.shi_yao].is_yong_shen
    /\ report.yaos[paipan_result.shi_yao].is_ji_shen
    /\ report.yaos[paipan_result.shi_yao].liuqin = "guangui"
    /\ Len(report.conclusion) = 2
    /\ report.conclusion[2] = "jishen_fadong"

\* the clause a mutating line at position d gets when the line at position
\* t is taken as the target spirit
EffectOn(d, t) ==
    LET dong_wx == paipan_result.ben_gua_yaos[d].wuxing
        yong_wx == paipan_result.ben_gua_yaos[t].wuxing
    IN IF d = t THEN ""
       ELSE IF Generates(dong_wx, yong_wx) THEN "shengfu_yongshen"
       ELSE IF Overcomes(dong_wx, yong_wx) THEN "kezhi_yongshen"
       ELSE ""

\* C26: Stage 4 takes the first target-flagged line as the target spirit,
\* Stage 3 the highest-scoring one; whichever target-flagged line is taken,
\* the mutating-line judgments are the same: all target-flagged lines have
\* the same element, and a mutating line that is itself target-flagged gets
\* neither the "generates the target" nor the "overcomes the target"
\* clause.
TargetChoiceIrrelevant ==
    AnalysisDone =>
        LET T == YongShenPositions
            M == MutatingPositions
            J == report.dong_yao_analysis
        IN /\ \A t1 \in T, t2 \in T :
                 paipan_result.ben_gua_yaos[t1].wuxing = paipan_result.ben_gua_yaos[t2].wuxing
           /\ T # {} => report.yong_shen_pos \in T
           /\ (M # {} /\ T # {}) =>
                 \A k \in 1..Len(J) :
                    /\ \A t \in T : J[k].effect = EffectOn(J[k].position, t)
                    /\ J[k].position \in T => J[k].effect = ""

\* two target-flagged lines: Stage 3 picks the second one, which mutates
\* and scores higher, Stage 4 the first one; a third line mutates and
\* generates the target
TargetChoiceIrrelevantWitness ==
    /\ AnalysisDone
    /\ Cardinality(YongShenPositions) >= 2
    /\ report.yong_shen_pos # KthPosition(YongShenPositions, 1)
    /\ report.yong_shen_pos \in MutatingPositions
    /\ \E k \in 1..Len(report.dong_yao_analysis) :
          report.dong_yao_analysis[k].effect = "shengfu_yongshen"

\* the sum of the by_type counts of the statistics
RECURSIVE SumCounts(_, _)
SumCounts(by_type, types) ==
    IF types = {} THEN 0
    ELSE LET t == CHOOSE x \in types : TRUE
         IN by_type[t] + SumCounts(by_type, types \ {t})

\* C27: starting from an empty store, after any sequence of save_record,
\* import_from_json, save_followup and clear_history, total_count equals
\* the number of records held in the store and equals the sum of the
\* by_type counts.
StatisticsMatchStore ==
    /\ store.statistics.total_count = Len(store.records)
    /\ store.statistics.total_count =
          SumCounts(store.statistics.by_type, DOMAIN store.statistics.by_type)

\* the roles of a conversation alternate, the first one being the user's
Alternates(conversation) ==
    \A i \in 1..Len(conversation) :
       conversation[i].role = (IF i % 2 = 1 THEN "user" ELSE "assistant")

\* a text holds the error message of an except clause
HasErrorText(text) == \E i \in 1..Len(text) : text[i] = "error"

\* C28: once run_divination has seeded the conversation with the prompt and
\* the interpretation, conversation_history alternates user and assistant
\* messages, starting with the user, after every follow-up; and a follow-up
\* whose service call fails leaves conversation_history as it was.
ConversationWellFormed ==
    /\ [](pc = "followup" => Alternates(conversation_history))
    /\ [][(pc = "followup" /\ followup_count' = followup_count + 1
             /\ HasErrorText(followup_response'))
           => conversation_history' = conversation_history]_vars

\* C29: no stored record has an error message as (part of) its
\* interpretation, and no stored follow-up has one as its answer: a failed
\* generation writes nothing to the store.
OnlyGeneratedTextStored ==
    \A i \in 1..Len(store.records) :
       /\ ~HasErrorText(store.records[i].interpretation)
       /\ \A j \in 1..Len(store.records[i].followups) :
             ~HasErrorText(store.records[i].followups[j].answer)

\* C30: when reinterpret_record has run on a stored record (six values in
\* yao_sequence, catalog and service available), no exception ended it,
\* and the rebuilt cast gives the original and the resulting hexagram the
\* record names.
ReinterpretationSucceeds ==
    pc = "reinterpreted" =>
        /\ Len(stored_record.yao_sequence) = NumYao
        /\ error = NoError
        /\ BenGuaBinary(mock_result.yao_list) = stored_record.ben_gua
        /\ stored_record.bian_gua # <<>> =>
               BianGuaBinary(mock_result.yao_list) = stored_record.bian_gua[1]

====
